---- MODULE Spec2Model ----
(***************************************************************************)
(* LDAPEnforcer: one reconciliation pass (Client.SyncAll) against an LDAP  *)
(* directory, repeated with an unchanged configuration.                    *)
(*                                                                         *)
(* DNs are strings built exactly as the code builds them (fmt.Sprintf);    *)
(* the directory is a function from the DNs that exist to their attribute  *)
(* maps; Go map iteration is a nondeterministic choice of the next key.    *)
(***************************************************************************)
EXTENDS Integers, Sequences, FiniteSets, TLC

\* Number of passes run in succession with the same configuration.
MaxPasses == 2

----------------------------------------------------------------------------
(* Small helpers over sequences and attribute maps *)

Range(s) == {s[i] : i \in DOMAIN s}

NoAttrs == [a \in {} |-> <<>>]

Reverse(s) == [i \in 1..Len(s) |-> s[Len(s) + 1 - i]]

Perms(S) == {p \in [1..Cardinality(S) -> S] : \A i, j \in 1..Cardinality(S) : p[i] = p[j] => i = j}

----------------------------------------------------------------------------
(* The name universe of the bounded configurations *)

PeopleOUName == "ou=people,dc=example,dc=com"
SvcAcctOUName == "ou=svcaccts,dc=example,dc=com"
GroupOUName == "ou=groups,dc=example,dc=com"
UnmanagedOUName == "ou=legacy,dc=example,dc=com"

\* Enforced OU layouts: pairwise disjoint; people and service accounts in the
\* same OU; service-account and group OUs nested inside the people OU.
OULayouts ==
    { [people |-> PeopleOUName, svcacct |-> SvcAcctOUName, group |-> GroupOUName],
      [people |-> PeopleOUName, svcacct |-> PeopleOUName, group |-> GroupOUName],
      [people |-> PeopleOUName, svcacct |-> "ou=svcaccts," \o PeopleOUName,
       group |-> "ou=groups," \o PeopleOUName] }

PersonDefs ==
    [ alice |-> [CN |-> "Alice Liddell", GivenName |-> "Alice", SN |-> "",
                 Mail |-> "alice@example.com", Posix |-> <<20069, 20101>>, Username |-> "alice"],
      bob   |-> [CN |-> "Bob", GivenName |-> "", SN |-> "Builder",
                 Mail |-> "", Posix |-> <<>>, Username |-> "bob"] ]

SvcAcctDefs ==
    [ backup |-> [CN |-> "Backup Service", Description |-> "Backup service", Mail |-> "",
                  Posix |-> <<1050, 1050>>, Username |-> "backup"] ]

\* A uid that no configuration declares: its entry is always stale.
StaleUID == "olduser"

\* The configuration files that InitConfigFileMonitoring watches.
Files == {"main"}

----------------------------------------------------------------------------
(* internal/model: Person, SvcAcct, Group *)

\* IsPosix that takes any list of two or more numbers for a POSIX pair.
IsPosixAtLeastTwo(p) == Len(p.Posix) >= 2

IsPosix(p) == Len(p.Posix) = 2

GetUIDNumber(p) == IF IsPosix(p) THEN p.Posix[1] ELSE 0

GetGIDNumber(p) == IF IsPosix(p) THEN p.Posix[2] ELSE 0

GroupIsPosix(g) == g.PosixGidNumber > 0

RECURSIVE splitWordsFrom(_, _, _, _)
splitWordsFrom(s, i, cur, acc) ==
    IF i > Len(s) THEN (IF cur = "" THEN acc ELSE Append(acc, cur))
    ELSE IF SubSeq(s, i, i) = " "
         THEN splitWordsFrom(s, i + 1, "", IF cur = "" THEN acc ELSE Append(acc, cur))
         ELSE splitWordsFrom(s, i + 1, cur \o SubSeq(s, i, i), acc)

splitWords(s) == splitWordsFrom(s, 1, "", <<>>)

GetSN(p) ==
    IF p.SN # "" THEN p.SN
    ELSE LET words == splitWords(p.CN)
         IN IF Len(words) > 0 THEN words[Len(words)] ELSE ""

----------------------------------------------------------------------------
(* internal/ldap: DN generation *)

\* ldap.EscapeFilter: each of ( ) * \ becomes a backslash and its two hex
\* digits; every other character of the names used here is copied.
EscapeChar(ch) ==
    CASE ch = "(" -> "\\28"
      [] ch = ")" -> "\\29"
      [] ch = "*" -> "\\2a"
      [] ch = "\\" -> "\\5c"
      [] OTHER -> ch

RECURSIVE EscapeFrom(_, _)
EscapeFrom(s, i) ==
    IF i > Len(s) THEN "" ELSE EscapeChar(SubSeq(s, i, i)) \o EscapeFrom(s, i + 1)

EscapeFilter(s) == EscapeFrom(s, 1)

PersonToDN(c, uid) == "uid=" \o EscapeFilter(uid) \o "," \o c.EnforcedPeopleOU

SvcAcctToDN(c, uid) == "uid=" \o EscapeFilter(uid) \o "," \o c.EnforcedSvcAcctOU

GroupToDN(c, groupname) == "cn=" \o EscapeFilter(groupname) \o "," \o c.EnforcedGroupOU

createPersonDN(uid, enforcedPeopleOU) == "uid=" \o uid \o "," \o enforcedPeopleOU

createSvcAcctDN(uid, enforcedSvcAcctOU) == "uid=" \o uid \o "," \o enforcedSvcAcctOU

\* The base object or an entry below it (ldap.ScopeWholeSubtree).
InSubtree(dn, base) ==
    \/ dn = base
    \/ /\ Len(dn) > Len(base) + 1
       /\ SubSeq(dn, Len(dn) - Len(base), Len(dn)) = "," \o base

----------------------------------------------------------------------------
(* internal/ldap: attribute derivation *)

GetPersonAttributes(person) ==
    LET objectClasses == <<"top", "inetOrgPerson", "nsMemberOf">>
                         \o (IF IsPosix(person) THEN <<"posixAccount">> ELSE <<"account">>)
        base == [objectClass |-> objectClasses, cn |-> <<person.CN>>, sn |-> <<GetSN(person)>>]
        given == IF person.GivenName # "" THEN "givenName" :> <<person.GivenName>> ELSE NoAttrs
        mail == IF person.Mail # "" THEN "mail" :> <<person.Mail>> ELSE NoAttrs
        posix == IF IsPosix(person)
                 THEN [uidNumber |-> <<ToString(GetUIDNumber(person))>>,
                       gidNumber |-> <<ToString(GetGIDNumber(person))>>,
                       homeDirectory |-> IF person.Username # ""
                                         THEN <<"/home/" \o person.Username>>
                                         ELSE <<"/nonexistent">>,
                       loginShell |-> <<"/bin/bash">>]
                 ELSE NoAttrs
    IN base @@ given @@ mail @@ posix

GetSvcAcctAttributes(svcacct) ==
    LET objectClasses == <<"top", "inetOrgPerson", "nsMemberOf">>
                         \o (IF IsPosix(svcacct) THEN <<"posixAccount">> ELSE <<"account">>)
        base == [objectClass |-> objectClasses, cn |-> <<svcacct.CN>>,
                 description |-> <<svcacct.Description>>, sn |-> <<svcacct.Username>>]
        mail == IF svcacct.Mail # "" THEN "mail" :> <<svcacct.Mail>> ELSE NoAttrs
        posix == IF IsPosix(svcacct)
                 THEN [uidNumber |-> <<ToString(GetUIDNumber(svcacct))>>,
                       gidNumber |-> <<ToString(GetGIDNumber(svcacct))>>,
                       homeDirectory |-> IF svcacct.Username # ""
                                         THEN <<"/home/" \o svcacct.Username>>
                                         ELSE <<"/nonexistent">>,
                       loginShell |-> <<"/usr/sbin/nologin">>]
                 ELSE NoAttrs
    IN base @@ mail @@ posix

----------------------------------------------------------------------------
(* internal/model: membership resolution *)

\* The people of a group with the unknown uids kept as members.
PersonMembersUnknownKept(uids, people, enforcedPeopleOU) ==
    [i \in 1..Len(uids) |->
        [DN |-> createPersonDN(uids[i], enforcedPeopleOU), Type |-> "person",
         UID |-> uids[i],
         IsPosix |-> IF uids[i] \in DOMAIN people THEN IsPosix(people[uids[i]]) ELSE FALSE]]

PersonMembers(uids, people, enforcedPeopleOU) ==
    LET known == SelectSeq(uids, LAMBDA uid : uid \in DOMAIN people)
    IN [i \in 1..Len(known) |->
            [DN |-> createPersonDN(known[i], enforcedPeopleOU), Type |-> "person",
             UID |-> known[i], IsPosix |-> IsPosix(people[known[i]])]]

SvcAcctMembers(uids, svcaccts, enforcedSvcAcctOU) ==
    LET known == SelectSeq(uids, LAMBDA uid : uid \in DOMAIN svcaccts)
    IN [i \in 1..Len(known) |->
            [DN |-> createSvcAcctDN(known[i], enforcedSvcAcctOU), Type |-> "svcacct",
             UID |-> known[i], IsPosix |-> IsPosix(svcaccts[known[i]])]]

\* Both return [members, processed]: processedGroups is one Go map shared by
\* the whole recursion, so it is threaded through the calls.
RECURSIVE getNestedGroupMembers(_, _, _, _, _, _, _, _), NestedLoop(_, _, _, _, _, _, _, _, _)
\* getNestedGroupMembers that also lists the nested group itself as a member.
getNestedGroupMembersAsMember(groupname, groups, people, svcaccts, enforcedPeopleOU, enforcedSvcAcctOU, enforcedGroupOU, processedGroups) ==
    IF groupname \notin DOMAIN groups
    THEN [members |-> <<>>, processed |-> processedGroups]
    ELSE LET group == groups[groupname]
             self == <<[DN |-> "cn=" \o groupname \o "," \o enforcedGroupOU, Type |-> "group",
                        UID |-> groupname, IsPosix |-> GroupIsPosix(group)]>>
             direct == PersonMembers(group.People, people, enforcedPeopleOU)
                       \o SvcAcctMembers(group.SvcAccts, svcaccts, enforcedSvcAcctOU)
         IN NestedLoop(group.Groups, 1, groups, people, svcaccts,
                       enforcedPeopleOU, enforcedSvcAcctOU, enforcedGroupOU,
                       [members |-> self \o direct, processed |-> processedGroups \cup {groupname}])

getNestedGroupMembers(groupname, groups, people, svcaccts, enforcedPeopleOU, enforcedSvcAcctOU, enforcedGroupOU, processedGroups) ==
    IF groupname \notin DOMAIN groups
    THEN [members |-> <<>>, processed |-> processedGroups]
    ELSE LET group == groups[groupname]
             direct == PersonMembers(group.People, people, enforcedPeopleOU)
                       \o SvcAcctMembers(group.SvcAccts, svcaccts, enforcedSvcAcctOU)
         IN NestedLoop(group.Groups, 1, groups, people, svcaccts,
                       enforcedPeopleOU, enforcedSvcAcctOU, enforcedGroupOU,
                       [members |-> direct, processed |-> processedGroups \cup {groupname}])

\* The loop over group.Groups that throws away what it has collected when it
\* meets a group already processed.
RECURSIVE NestedLoopDropOnCycle(_, _, _, _, _, _, _, _, _)
NestedLoopDropOnCycle(names, i, groups, people, svcaccts, enforcedPeopleOU, enforcedSvcAcctOU, enforcedGroupOU, acc) ==
    IF i > Len(names) THEN acc
    ELSE IF names[i] \in acc.processed
         THEN NestedLoopDropOnCycle(names, i + 1, groups, people, svcaccts,
                                    enforcedPeopleOU, enforcedSvcAcctOU, enforcedGroupOU,
                                    [acc EXCEPT !.members = <<>>])
         ELSE LET r == getNestedGroupMembers(names[i], groups, people, svcaccts,
                                             enforcedPeopleOU, enforcedSvcAcctOU,
                                             enforcedGroupOU, acc.processed)
              IN NestedLoopDropOnCycle(names, i + 1, groups, people, svcaccts,
                                       enforcedPeopleOU, enforcedSvcAcctOU, enforcedGroupOU,
                                       [members |-> acc.members \o r.members, processed |-> r.processed])

NestedLoop(names, i, groups, people, svcaccts, enforcedPeopleOU, enforcedSvcAcctOU, enforcedGroupOU, acc) ==
    IF i > Len(names) THEN acc
    ELSE IF names[i] \in acc.processed
         THEN NestedLoop(names, i + 1, groups, people, svcaccts,
                         enforcedPeopleOU, enforcedSvcAcctOU, enforcedGroupOU, acc)
         ELSE LET r == getNestedGroupMembers(names[i], groups, people, svcaccts,
                                             enforcedPeopleOU, enforcedSvcAcctOU,
                                             enforcedGroupOU, acc.processed)
              IN NestedLoop(names, i + 1, groups, people, svcaccts,
                            enforcedPeopleOU, enforcedSvcAcctOU, enforcedGroupOU,
                            [members |-> acc.members \o r.members, processed |-> r.processed])

GetGroupMembers(groupname, groups, people, svcaccts, enforcedPeopleOU, enforcedSvcAcctOU, enforcedGroupOU) ==
    IF groupname \notin DOMAIN groups THEN <<>>
    ELSE LET group == groups[groupname]
             direct == PersonMembers(group.People, people, enforcedPeopleOU)
                       \o SvcAcctMembers(group.SvcAccts, svcaccts, enforcedSvcAcctOU)
         IN NestedLoop(group.Groups, 1, groups, people, svcaccts,
                       enforcedPeopleOU, enforcedSvcAcctOU, enforcedGroupOU,
                       [members |-> direct, processed |-> {groupname}]).members

\* The DNs that GetGroupAttributes puts in the member attribute.
MemberDNs(c, groupname) ==
    LET members == GetGroupMembers(groupname, c.Group, c.Person, c.SvcAcct,
                                   c.EnforcedPeopleOU, c.EnforcedSvcAcctOU, c.EnforcedGroupOU)
    IN [i \in 1..Len(members) |-> members[i].DN]

\* GetGroupAttributes without the check for an empty member list.
GetGroupAttributesUnchecked(c, groupname, group) ==
    LET memberDNs == MemberDNs(c, groupname)
        base == [objectClass |-> <<"top", "groupOfNames">> \o
                                 (IF GroupIsPosix(group) THEN <<"posixGroup">> ELSE <<>>),
                 cn |-> <<groupname>>, description |-> <<group.Description>>,
                 member |-> memberDNs]
        gid == IF GroupIsPosix(group)
               THEN "gidNumber" :> <<ToString(group.PosixGidNumber)>> ELSE NoAttrs
    IN [err |-> FALSE, attrs |-> base @@ gid]

\* GetGroupAttributes: [err |-> TRUE] stands for the error
\* "group has no members after resolving".
GetGroupAttributes(c, groupname, group) ==
    LET memberDNs == MemberDNs(c, groupname)
        base == [objectClass |-> <<"top", "groupOfNames">> \o
                                 (IF GroupIsPosix(group) THEN <<"posixGroup">> ELSE <<>>),
                 cn |-> <<groupname>>, description |-> <<group.Description>>,
                 member |-> memberDNs]
        gid == IF GroupIsPosix(group)
               THEN "gidNumber" :> <<ToString(group.PosixGidNumber)>> ELSE NoAttrs
    IN IF Len(memberDNs) = 0 THEN [err |-> TRUE, attrs |-> NoAttrs]
       ELSE [err |-> FALSE, attrs |-> base @@ gid]

----------------------------------------------------------------------------
(* internal/ldap: group dependencies and apply order *)

\* Both return [deps, unres, processed]; processedGroups is the Go map that
\* SyncAll shares between all its calls.
RECURSIVE getGroupDependencies(_, _, _), DependencyLoop(_, _, _, _)
getGroupDependencies(c, groupname, processedGroups) ==
    IF groupname \notin DOMAIN c.Group
    THEN [deps |-> <<>>, unres |-> <<>>, processed |-> processedGroups \cup {groupname}]
    ELSE LET group == c.Group[groupname]
             unresPeople == SelectSeq(group.People, LAMBDA uid : uid \notin DOMAIN c.Person)
             unresSvcAccts == SelectSeq(group.SvcAccts, LAMBDA uid : uid \notin DOMAIN c.SvcAcct)
         IN DependencyLoop(c, group.Groups, 1,
                           [deps |-> <<>>, unres |-> unresPeople \o unresSvcAccts,
                            processed |-> processedGroups \cup {groupname}])

DependencyLoop(c, names, i, acc) ==
    IF i > Len(names) THEN acc
    ELSE LET added == [acc EXCEPT !.deps = Append(@, names[i])]
         IN IF names[i] \in added.processed
            THEN DependencyLoop(c, names, i + 1, added)
            ELSE LET r == getGroupDependencies(c, names[i], added.processed)
                 IN DependencyLoop(c, names, i + 1,
                                   [deps |-> added.deps \o r.deps,
                                    unres |-> added.unres \o r.unres,
                                    processed |-> r.processed])

\* SyncAll's loop over the Group map in the iteration order `iter`:
\* groupDeps has an entry only for a group with at least one dependency.
RECURSIVE CollectGroupDeps(_, _, _, _, _)
CollectGroupDeps(c, iter, i, processedGroups, deps) ==
    IF i > Len(iter) THEN deps
    ELSE LET r == getGroupDependencies(c, iter[i], processedGroups)
         IN CollectGroupDeps(c, iter, i + 1, r.processed,
                             IF Len(r.deps) > 0 THEN (iter[i] :> r.deps) @@ deps ELSE deps)

\* The same loop for unresolvableMembers: the warnings SyncAll logs, one for
\* each unresolvable member of each entry of the map.
RECURSIVE CollectUnresolvable(_, _, _, _, _)
CollectUnresolvable(c, iter, i, processedGroups, logged) ==
    IF i > Len(iter) THEN logged
    ELSE LET r == getGroupDependencies(c, iter[i], processedGroups)
         IN CollectUnresolvable(c, iter, i + 1, r.processed,
                                logged \cup {<<m, iter[i]>> : m \in Range(r.unres)})

AllGroups(c, deps) ==
    DOMAIN c.Group \cup DOMAIN deps \cup UNION {Range(deps[g]) : g \in DOMAIN deps}

\* The DFS of topologicalSortGroups; st is [visited, temp, order].
RECURSIVE visit(_, _, _), VisitEach(_, _, _, _)
visit(graph, node, st) ==
    IF node \in st.visited THEN st
    ELSE IF node \in st.temp THEN st
    ELSE LET below == VisitEach(graph, graph[node], 1, [st EXCEPT !.temp = @ \cup {node}])
         IN [visited |-> below.visited \cup {node},
             temp |-> below.temp \ {node},
             order |-> Append(below.order, node)]

VisitEach(graph, nodes, i, st) ==
    IF i > Len(nodes) THEN st
    ELSE VisitEach(graph, nodes, i + 1, visit(graph, nodes[i], st))

\* topologicalSortGroups whose graph holds only the groups that occur in deps.
topologicalSortGroupsOfDeps(c, deps, iter) ==
    LET nodes == DOMAIN deps \cup UNION {Range(deps[g]) : g \in DOMAIN deps}
        graph == [g \in nodes |-> IF g \in DOMAIN deps THEN deps[g] ELSE <<>>]
        done == VisitEach(graph, SelectSeq(iter, LAMBDA g : g \in nodes), 1,
                          [visited |-> {}, temp |-> {}, order |-> <<>>])
    IN Reverse(done.order)

\* iter is the order in which Go iterates over the keys of graph.
topologicalSortGroups(c, deps, iter) ==
    LET graph == [g \in AllGroups(c, deps) |-> IF g \in DOMAIN deps THEN deps[g] ELSE <<>>]
        done == VisitEach(graph, iter, 1, [visited |-> {}, temp |-> {}, order |-> <<>>])
    IN Reverse(done.order)

----------------------------------------------------------------------------
(* internal/ldap: the directory operations of Client *)

HasClass(entry, class) == class \in Range(entry.objectClass)

EntryExists(d, dn) == dn \in DOMAIN d

CreateEntry(d, dn, attributes) ==
    IF dn \in DOMAIN d THEN [dir |-> d, err |-> "entryAlreadyExists"]
    ELSE [dir |-> (dn :> attributes) @@ d, err |-> "none"]

\* ModifyEntry that replaces the whole entry by mods.
ModifyEntryWhole(d, dn, mods) ==
    IF dn \notin DOMAIN d THEN [dir |-> d, err |-> "noSuchObject"]
    ELSE [dir |-> [d EXCEPT ![dn] = mods], err |-> "none"]

\* operation is always ldap.ReplaceAttribute: each attribute of mods replaces
\* the entry's values for it, the entry's other attributes stay.
ModifyEntry(d, dn, mods) ==
    IF dn \notin DOMAIN d THEN [dir |-> d, err |-> "noSuchObject"]
    ELSE [dir |-> [d EXCEPT ![dn] = mods @@ @], err |-> "none"]

DeleteEntry(d, dn) ==
    IF dn \notin DOMAIN d THEN [dir |-> d, err |-> "noSuchObject"]
    ELSE [dir |-> [x \in DOMAIN d \ {dn} |-> d[x]], err |-> "none"]

SearchFilter(entryType) ==
    CASE entryType = "person" -> "inetOrgPerson"
      [] entryType = "svcacct" -> "inetOrgPerson"
      [] entryType = "group" -> "groupOfNames"

\* GetExistingEntries searching the whole tree instead of the subtree of ou.
GetExistingEntriesAnywhere(d, ou, entryType) ==
    {dn \in DOMAIN d : HasClass(d[dn], SearchFilter(entryType))}

GetExistingEntries(d, ou, entryType) ==
    {dn \in DOMAIN d : InSubtree(dn, ou) /\ HasClass(d[dn], SearchFilter(entryType))}

RECURSIVE FirstComma(_, _)
FirstComma(dn, i) ==
    IF i > Len(dn) THEN i ELSE IF SubSeq(dn, i, i) = "," THEN i ELSE FirstComma(dn, i + 1)

getOUFromDN(dn) ==
    IF Len(dn) >= 3 /\ SubSeq(dn, 1, 3) = "ou=" THEN SubSeq(dn, 4, FirstComma(dn, 1) - 1) ELSE ""

OUAttributes(dn) ==
    [objectClass |-> <<"top", "organizationalUnit">>, ou |-> <<EscapeFilter(getOUFromDN(dn))>>]

----------------------------------------------------------------------------
(* internal/config: the configurations that Validate accepts *)

Validate(c) ==
    /\ c.URI # ""
    /\ c.BindDN # ""
    /\ c.Password # "" \/ c.PasswordFile # ""
    /\ c.EnforcedPeopleOU # ""
    /\ c.EnforcedSvcAcctOU # ""
    /\ c.EnforcedGroupOU # ""

AdminsDefs ==
    { [Description |-> "Administrators", PosixGidNumber |-> 0,
       People |-> p, SvcAccts |-> <<>>, Groups |-> n] :
      p \in {<<>>, <<"bob">>, <<"alice", "ghost">>}, n \in {<<>>, <<"staff">>} }

StaffDefs ==
    { [Description |-> "Staff", PosixGidNumber |-> 10200,
       People |-> <<>>, SvcAccts |-> a, Groups |-> n] :
      a \in {<<>>, <<"backup">>}, n \in {<<>>, <<"admins">>} }

GroupMaps ==
    { [g \in D |-> gm[g]] : gm \in [admins : AdminsDefs, staff : StaffDefs],
                            D \in SUBSET {"admins", "staff"} }

Configs ==
    { [URI |-> "ldap://localhost:389", BindDN |-> "cn=Directory Manager", Password |-> "secret",
       PasswordFile |-> "",
       EnforcedPeopleOU |-> l.people, EnforcedSvcAcctOU |-> l.svcacct,
       EnforcedGroupOU |-> l.group,
       Person |-> [u \in P |-> PersonDefs[u]],
       SvcAcct |-> [u \in S |-> SvcAcctDefs[u]],
       Group |-> G] :
      l \in OULayouts \cup {[people |-> PeopleOUName, svcacct |-> SvcAcctOUName, group |-> ""]},
      P \in SUBSET {"alice", "bob"}, S \in SUBSET {"backup"}, G \in GroupMaps }

----------------------------------------------------------------------------
(* The directory before the first pass *)

BaseDN == "dc=example,dc=com"

FormerPersonEntry(uid) ==
    [objectClass |-> <<"top", "inetOrgPerson", "nsMemberOf", "account">>,
     cn |-> <<"Former Name">>, sn |-> <<"Name">>, uid |-> <<uid>>,
     mail |-> <<"former@example.com">>, userPassword |-> <<"{SSHA}secret">>]

FormerGroupEntry(c, groupname) ==
    [objectClass |-> <<"top", "groupOfNames">>, cn |-> <<groupname>>,
     description |-> <<"Former description">>, member |-> <<PersonToDN(c, StaleUID)>>]

\* Entries that no enforced OU contains, one of them with the uid of a managed
\* account and one with the cn of a managed group.
UnmanagedEntries ==
    (BaseDN :> [objectClass |-> <<"top", "domain">>, dc |-> <<"example">>])
    @@ (UnmanagedOUName :> OUAttributes(UnmanagedOUName))
    @@ (("uid=alice," \o UnmanagedOUName) :> FormerPersonEntry("alice"))
    @@ (("cn=admins," \o UnmanagedOUName) :> FormerGroupEntry([EnforcedPeopleOU |-> UnmanagedOUName], "admins"))

ManagedCandidates(c) ==
    (PersonToDN(c, "alice") :> FormerPersonEntry("alice"))
    @@ (PersonToDN(c, StaleUID) :> FormerPersonEntry(StaleUID))
    @@ (SvcAcctToDN(c, "backup") :> FormerPersonEntry("backup"))
    @@ (GroupToDN(c, "admins") :> FormerGroupEntry(c, "admins"))

EnforcedOUs(c) == {c.EnforcedPeopleOU, c.EnforcedSvcAcctOU, c.EnforcedGroupOU}

\* An enforced OU exists before the first pass exactly if an entry lies below it.
InitialDirs(c) ==
    { LET present == [dn \in D |-> ManagedCandidates(c)[dn]]
          ous == {ou \in EnforcedOUs(c) : \E dn \in D : InSubtree(dn, ou)}
      IN present @@ [ou \in ous |-> OUAttributes(ou)] @@ UnmanagedEntries :
      D \in SUBSET DOMAIN ManagedCandidates(c) }

----------------------------------------------------------------------------
(* State *)

VARIABLES
    cfg,               \* the configuration the passes run with
    dir,               \* the directory: DN -> attribute map, for the DNs that exist
    passStart,         \* the directory as it was when the current pass started
    pass,              \* number of the current pass
    pc,                \* position of the current pass inside SyncAll
    err,               \* what the pass returned: "none" while it runs or succeeds
    ops,               \* create/modify/delete requests issued by the current pass, in order
    searched,          \* base DNs of the searches issued by the current pass
    peopleToAdd, peopleToModify, peopleToDelete,
    svcAcctsToAdd, svcAcctsToModify, svcAcctsToDelete,
    groupsToAdd, groupsToModify, groupsToDelete,
    groupDeps,         \* group name -> the names it depends on
    groupOrder         \* what is left of topologicalSortGroups' result

VARIABLES
    resolved,          \* group name -> the members GetGroupMembers returned for it
    failing,           \* the directory refuses or drops requests at present
    loop,              \* position of the sync command in polling mode, "off" without --poll
    inFlight,          \* calls of runSync that have not returned
    disk,              \* what the configuration files hold at present
    modTime,           \* file -> its modification time
    configFileModTimes, \* file -> the modification time InitConfigFileMonitoring recorded
    loadedAt,          \* number of modifications made when cfg was loaded
    configTick,        \* a tick waits in configTicker.C
    ldapTick,          \* a tick waits in ldapTicker.C
    retryElapsed,      \* time.After of the start-up retry wait has fired
    sigPending,        \* a signal waits in sigChan
    sinceLastSync,     \* time.Since(lastLDAPSync), capped at LDAPInterval
    ldapPhase          \* time since ldapTicker last fired

VARIABLES
    cmd,               \* the command that runs: "sync", "sync-person", "sync-svcacct", "sync-group"
    arg,               \* its argument: the uid or group name, "" for sync
    dryRun,            \* the --dry-run flag
    report,            \* what the command has printed about the changes it would make
    env,               \* the process environment: variable name -> value, for the variables set
    flags,             \* the command line: flag name -> value, for the flags given
    conns,             \* directory connections that are open
    warnings           \* <<member, group>> of the "Unresolvable member" warnings of the current pass

\* The state of the polling loop and of its environment.
pollvars == <<loop, inFlight, disk, modTime, configFileModTimes, loadedAt,
              configTick, ldapTick, retryElapsed, sigPending, sinceLastSync, ldapPhase>>

\* What the requests of a pass never touch: the resolver's results, the health
\* of the directory, the polling loop, the command line, the connection.
\* The command line and the command's output.
cmdvars == <<cmd, arg, dryRun, report, env, flags>>

aux == <<resolved, failing, pollvars, cmdvars, conns, warnings>>

worklists == <<peopleToAdd, peopleToModify, peopleToDelete,
               svcAcctsToAdd, svcAcctsToModify, svcAcctsToDelete,
               groupsToAdd, groupsToModify, groupsToDelete, groupDeps, groupOrder>>

vars == <<cfg, dir, passStart, pass, pc, err, ops, searched, worklists, aux>>

NoWork ==
    /\ peopleToAdd = {} /\ peopleToModify = {} /\ peopleToDelete = {}
    /\ svcAcctsToAdd = {} /\ svcAcctsToModify = {} /\ svcAcctsToDelete = {}
    /\ groupsToAdd = {} /\ groupsToModify = {} /\ groupsToDelete = {}
    /\ groupDeps = NoAttrs /\ groupOrder = <<>>

\* The sync command run once, without --poll: no loop, no timers, no reload.
PollOff ==
    /\ loop = "off"
    /\ inFlight = 0
    /\ disk = "A"
    /\ modTime = [f \in Files |-> 0]
    /\ configFileModTimes = NoAttrs
    /\ loadedAt = 0
    /\ configTick = FALSE /\ ldapTick = FALSE /\ retryElapsed = FALSE /\ sigPending = FALSE
    /\ sinceLastSync = 0
    /\ ldapPhase = 0

\* The sync command without --dry-run.
CmdOff ==
    /\ cmd = "sync"
    /\ arg = ""
    /\ dryRun = FALSE
    /\ report = <<>>
    /\ env = NoAttrs
    /\ flags = NoAttrs

Init ==
    /\ cfg \in {c \in Configs : Validate(c)}
    /\ dir \in InitialDirs(cfg)
    /\ passStart = dir
    /\ pass = 1
    /\ pc = "ensurePeopleOU"
    /\ err = "none"
    /\ ops = <<>>
    /\ searched = {}
    /\ NoWork
    /\ resolved = NoAttrs
    /\ failing = TRUE
    /\ PollOff
    /\ CmdOff
    /\ conns = 1
    /\ warnings = {}

----------------------------------------------------------------------------
(* One directory request of the pass *)

\* The request is sent and logged; it fails when the directory refuses it or,
\* with fault, for a reason outside the directory's contents (transport,
\* permissions). A failure makes SyncAll return the error at once.
Outcome(kind, dn, attrs, fault) ==
    IF fault THEN [dir |-> dir, err |-> "failed"]
    ELSE CASE kind = "create" -> CreateEntry(dir, dn, attrs)
           [] kind = "modify" -> ModifyEntry(dir, dn, attrs)
           [] kind = "delete" -> DeleteEntry(dir, dn)

\* A request after whose failure the pass goes on with its next step.
RequestContinuing(by, kind, dn, attrs, fault, nextpc) ==
    LET r == Outcome(kind, dn, attrs, fault)
    IN /\ fault => failing
       /\ dir' = r.dir
       /\ ops' = Append(ops, [by |-> by, op |-> kind, dn |-> dn, attrs |-> attrs, err |-> r.err])
       /\ err' = r.err
       /\ pc' = nextpc

\* by names the place in SyncAll that issues the request.
Request(by, kind, dn, attrs, fault, nextpc) ==
    LET r == Outcome(kind, dn, attrs, fault)
    IN /\ fault => failing
       /\ dir' = r.dir
       /\ ops' = Append(ops, [by |-> by, op |-> kind, dn |-> dn, attrs |-> attrs, err |-> r.err])
       /\ err' = r.err
       /\ pc' = IF r.err = "none" THEN nextpc ELSE "returned"

\* A search that fails ends the pass without any request.
SearchFails ==
    /\ failing
    /\ err' = "failed"
    /\ pc' = "returned"
    /\ UNCHANGED <<dir, ops>>

----------------------------------------------------------------------------
(* SyncAll, step by step *)

OUAt(position) ==
    CASE position = "ensurePeopleOU" -> cfg.EnforcedPeopleOU
      [] position = "ensureSvcAcctOU" -> cfg.EnforcedSvcAcctOU
      [] position = "ensureGroupOU" -> cfg.EnforcedGroupOU

AfterOU(position) ==
    CASE position = "ensurePeopleOU" -> "ensureSvcAcctOU"
      [] position = "ensureSvcAcctOU" -> "ensureGroupOU"
      [] position = "ensureGroupOU" -> IF cmd = "sync" THEN "classify" ELSE "syncOne"

\* EnsureManagedOUsExist: one EnsureOUExists per step.
EnsureOUExists ==
    /\ pc \in {"ensurePeopleOU", "ensureSvcAcctOU", "ensureGroupOU"}
    /\ searched' = searched \cup {OUAt(pc)}
    /\ \/ /\ EntryExists(dir, OUAt(pc))
          /\ pc' = AfterOU(pc)
          /\ UNCHANGED <<dir, ops, err>>
       \/ /\ ~EntryExists(dir, OUAt(pc))
          /\ \E fault \in BOOLEAN :
                Request("EnsureOUExists", "create", OUAt(pc), OUAttributes(OUAt(pc)), fault, AfterOU(pc))
       \/ SearchFails
    /\ UNCHANGED <<cfg, passStart, pass, aux, worklists>>

\* The entries that stay in existing although SyncAll found them declared.
RemainingAll(existing, declared) == existing

\* What is left of the map existing once SyncAll did delete(existing, dn) for
\* every declared dn it found in it: the entries to delete.
Remaining(existing, declared) == existing \ declared

\* The three searches and the classification into add / modify / delete;
\* iter is the order in which Go iterates over the Group map.
Classify ==
    /\ pc = "classify"
    /\ searched' = searched \cup EnforcedOUs(cfg)
    /\ \/ LET existingPeople == GetExistingEntries(dir, cfg.EnforcedPeopleOU, "person")
              existingSvcAccts == GetExistingEntries(dir, cfg.EnforcedSvcAcctOU, "svcacct")
              existingGroups == GetExistingEntries(dir, cfg.EnforcedGroupOU, "group")
          IN /\ peopleToModify' = {uid \in DOMAIN cfg.Person : PersonToDN(cfg, uid) \in existingPeople}
             /\ peopleToAdd' = {uid \in DOMAIN cfg.Person : PersonToDN(cfg, uid) \notin existingPeople}
             /\ peopleToDelete' = Remaining(existingPeople, {PersonToDN(cfg, uid) : uid \in DOMAIN cfg.Person})
             /\ svcAcctsToModify' = {uid \in DOMAIN cfg.SvcAcct : SvcAcctToDN(cfg, uid) \in existingSvcAccts}
             /\ svcAcctsToAdd' = {uid \in DOMAIN cfg.SvcAcct : SvcAcctToDN(cfg, uid) \notin existingSvcAccts}
             /\ svcAcctsToDelete' = Remaining(existingSvcAccts, {SvcAcctToDN(cfg, uid) : uid \in DOMAIN cfg.SvcAcct})
             /\ groupsToModify' = {g \in DOMAIN cfg.Group : GroupToDN(cfg, g) \in existingGroups}
             /\ groupsToAdd' = {g \in DOMAIN cfg.Group : GroupToDN(cfg, g) \notin existingGroups}
             /\ groupsToDelete' = Remaining(existingGroups, {GroupToDN(cfg, g) : g \in DOMAIN cfg.Group})
             /\ \E iter \in Perms(DOMAIN cfg.Group) :
                    /\ groupDeps' = CollectGroupDeps(cfg, iter, 1, {}, NoAttrs)
                    /\ warnings' = CollectUnresolvable(cfg, iter, 1, {}, {})
             /\ pc' = "accounts"
             /\ UNCHANGED <<dir, ops, err, groupOrder>>
       \/ /\ SearchFails
          /\ UNCHANGED <<worklists, warnings>>
    /\ UNCHANGED <<cfg, passStart, pass, resolved, failing, pollvars, cmdvars, conns>>

\* Where the caller of SyncPerson, SyncSvcAcct or SyncGroup goes on when the
\* call succeeded: SyncAll stays in its loop, sync-person, sync-svcacct and
\* sync-group return.
AfterSync == IF cmd = "sync" THEN pc ELSE "returned"

\* SyncPerson that sends a modify only when an attribute differs.
SyncPersonIfChanged(uid, fault) ==
    LET dn == PersonToDN(cfg, uid)
        person == IF cfg.Person[uid].Username = ""
                  THEN [cfg.Person[uid] EXCEPT !.Username = uid]
                  ELSE cfg.Person[uid]
        attrs == GetPersonAttributes(person)
    IN /\ cfg' = [cfg EXCEPT !.Person[uid] = person]
       /\ searched' = searched \cup {dn}
       /\ IF EntryExists(dir, dn)
          THEN IF attrs @@ dir[dn] = dir[dn]
               THEN /\ ~fault
                    /\ pc' = AfterSync
                    /\ UNCHANGED <<dir, ops, err>>
               ELSE Request("SyncPerson", "modify", dn, attrs, fault, AfterSync)
          ELSE Request("SyncPerson", "create", dn, ("uid" :> <<uid>>) @@ attrs, fault, AfterSync)

\* SyncPerson as SyncAll calls it for uid.
SyncPerson(uid, fault) ==
    LET dn == PersonToDN(cfg, uid)
        person == IF cfg.Person[uid].Username = ""
                  THEN [cfg.Person[uid] EXCEPT !.Username = uid]
                  ELSE cfg.Person[uid]
        attrs == GetPersonAttributes(person)
    IN /\ cfg' = [cfg EXCEPT !.Person[uid] = person]
       /\ searched' = searched \cup {dn}
       /\ IF EntryExists(dir, dn)
          THEN Request("SyncPerson", "modify", dn, attrs, fault, AfterSync)
          ELSE Request("SyncPerson", "create", dn, ("uid" :> <<uid>>) @@ attrs, fault, AfterSync)

SyncSvcAcct(uid, fault) ==
    LET dn == SvcAcctToDN(cfg, uid)
        svcacct == IF cfg.SvcAcct[uid].Username = ""
                   THEN [cfg.SvcAcct[uid] EXCEPT !.Username = uid]
                   ELSE cfg.SvcAcct[uid]
        attrs == GetSvcAcctAttributes(svcacct)
    IN /\ cfg' = [cfg EXCEPT !.SvcAcct[uid] = svcacct]
       /\ searched' = searched \cup {dn}
       /\ IF EntryExists(dir, dn)
          THEN Request("SyncSvcAcct", "modify", dn, attrs, fault, AfterSync)
          ELSE Request("SyncSvcAcct", "create", dn, ("uid" :> <<uid>>) @@ attrs, fault, AfterSync)

\* SyncGroup: an empty group is deleted if it exists and skipped otherwise.
SyncGroup(groupname, fault) ==
    LET dn == GroupToDN(cfg, groupname)
        got == GetGroupAttributes(cfg, groupname, cfg.Group[groupname])
    IN /\ searched' = searched \cup {dn}
       /\ IF got.err
          THEN IF EntryExists(dir, dn)
               THEN Request("SyncGroup", "delete", dn, NoAttrs, fault, AfterSync)
               ELSE /\ ~fault
                    /\ pc' = AfterSync
                    /\ UNCHANGED <<dir, ops, err>>
          ELSE IF EntryExists(dir, dn)
               THEN Request("SyncGroup", "modify", dn, got.attrs, fault, AfterSync)
               ELSE Request("SyncGroup", "create", dn, got.attrs, fault, AfterSync)

AddPeople ==
    /\ pc = "accounts"
    /\ \E uid \in peopleToAdd, fault \in BOOLEAN :
          /\ SyncPerson(uid, fault)
          /\ peopleToAdd' = peopleToAdd \ {uid}
    /\ UNCHANGED <<passStart, pass, aux, peopleToModify, peopleToDelete,
                   svcAcctsToAdd, svcAcctsToModify, svcAcctsToDelete,
                   groupsToAdd, groupsToModify, groupsToDelete, groupDeps, groupOrder>>

ModifyPeople ==
    /\ pc = "accounts"
    /\ peopleToAdd = {}
    /\ \E uid \in peopleToModify, fault \in BOOLEAN :
          /\ SyncPerson(uid, fault)
          /\ peopleToModify' = peopleToModify \ {uid}
    /\ UNCHANGED <<passStart, pass, aux, peopleToAdd, peopleToDelete,
                   svcAcctsToAdd, svcAcctsToModify, svcAcctsToDelete,
                   groupsToAdd, groupsToModify, groupsToDelete, groupDeps, groupOrder>>

AddSvcAccts ==
    /\ pc = "accounts"
    /\ peopleToAdd = {} /\ peopleToModify = {}
    /\ \E uid \in svcAcctsToAdd, fault \in BOOLEAN :
          /\ SyncSvcAcct(uid, fault)
          /\ svcAcctsToAdd' = svcAcctsToAdd \ {uid}
    /\ UNCHANGED <<passStart, pass, aux, peopleToAdd, peopleToModify, peopleToDelete,
                   svcAcctsToModify, svcAcctsToDelete,
                   groupsToAdd, groupsToModify, groupsToDelete, groupDeps, groupOrder>>

ModifySvcAccts ==
    /\ pc = "accounts"
    /\ peopleToAdd = {} /\ peopleToModify = {} /\ svcAcctsToAdd = {}
    /\ \E uid \in svcAcctsToModify, fault \in BOOLEAN :
          /\ SyncSvcAcct(uid, fault)
          /\ svcAcctsToModify' = svcAcctsToModify \ {uid}
    /\ UNCHANGED <<passStart, pass, aux, peopleToAdd, peopleToModify, peopleToDelete,
                   svcAcctsToAdd, svcAcctsToDelete,
                   groupsToAdd, groupsToModify, groupsToDelete, groupDeps, groupOrder>>

\* The group stage entered as soon as the people are applied.
PeopleApplied ==
    /\ peopleToAdd = {} /\ peopleToModify = {}

AccountsApplied ==
    /\ peopleToAdd = {} /\ peopleToModify = {}
    /\ svcAcctsToAdd = {} /\ svcAcctsToModify = {}

\* groupOrder := topologicalSortGroups(groupDeps), once the accounts are applied.
SortGroups ==
    /\ pc = "accounts"
    /\ AccountsApplied
    /\ \E iter \in Perms(AllGroups(cfg, groupDeps)) :
          groupOrder' = topologicalSortGroups(cfg, groupDeps, iter)
    /\ pc' = "groups"
    /\ UNCHANGED <<cfg, dir, passStart, pass, aux, err, ops, searched,
                   peopleToAdd, peopleToModify, peopleToDelete,
                   svcAcctsToAdd, svcAcctsToModify, svcAcctsToDelete,
                   groupsToAdd, groupsToModify, groupsToDelete, groupDeps>>

\* One iteration of the loop over groupOrder: a name in neither list is skipped.
ApplyGroup ==
    /\ pc = "groups"
    /\ groupOrder # <<>>
    /\ groupOrder' = Tail(groupOrder)
    /\ IF Head(groupOrder) \in groupsToAdd \cup groupsToModify
       THEN \E fault \in BOOLEAN : SyncGroup(Head(groupOrder), fault)
       ELSE UNCHANGED <<dir, ops, err, pc, searched>>
    /\ UNCHANGED <<cfg, passStart, pass, aux, peopleToAdd, peopleToModify, peopleToDelete,
                   svcAcctsToAdd, svcAcctsToModify, svcAcctsToDelete,
                   groupsToAdd, groupsToModify, groupsToDelete, groupDeps>>

DeleteGroups ==
    /\ pc = "groups"
    /\ groupOrder = <<>>
    /\ \E dn \in groupsToDelete, fault \in BOOLEAN :
          /\ Request("groupsToDelete", "delete", dn, NoAttrs, fault, pc)
          /\ groupsToDelete' = groupsToDelete \ {dn}
    /\ UNCHANGED <<cfg, passStart, pass, aux, searched, peopleToAdd, peopleToModify, peopleToDelete,
                   svcAcctsToAdd, svcAcctsToModify, svcAcctsToDelete,
                   groupsToAdd, groupsToModify, groupDeps, groupOrder>>

\* Stale people deleted without waiting for the group stage to finish.
DeletePeopleEarly ==
    /\ pc = "groups"
    /\ \E dn \in peopleToDelete, fault \in BOOLEAN :
          /\ Request("peopleToDelete", "delete", dn, NoAttrs, fault, pc)
          /\ peopleToDelete' = peopleToDelete \ {dn}
    /\ UNCHANGED <<cfg, passStart, pass, aux, searched, peopleToAdd, peopleToModify,
                   svcAcctsToAdd, svcAcctsToModify, svcAcctsToDelete,
                   groupsToAdd, groupsToModify, groupsToDelete, groupDeps, groupOrder>>

DeletePeople ==
    /\ pc = "groups"
    /\ groupOrder = <<>> /\ groupsToDelete = {}
    /\ \E dn \in peopleToDelete, fault \in BOOLEAN :
          /\ Request("peopleToDelete", "delete", dn, NoAttrs, fault, pc)
          /\ peopleToDelete' = peopleToDelete \ {dn}
    /\ UNCHANGED <<cfg, passStart, pass, aux, searched, peopleToAdd, peopleToModify,
                   svcAcctsToAdd, svcAcctsToModify, svcAcctsToDelete,
                   groupsToAdd, groupsToModify, groupsToDelete, groupDeps, groupOrder>>

DeleteSvcAccts ==
    /\ pc = "groups"
    /\ groupOrder = <<>> /\ groupsToDelete = {} /\ peopleToDelete = {}
    /\ \E dn \in svcAcctsToDelete, fault \in BOOLEAN :
          /\ Request("svcAcctsToDelete", "delete", dn, NoAttrs, fault, pc)
          /\ svcAcctsToDelete' = svcAcctsToDelete \ {dn}
    /\ UNCHANGED <<cfg, passStart, pass, aux, searched, peopleToAdd, peopleToModify, peopleToDelete,
                   svcAcctsToAdd, svcAcctsToModify,
                   groupsToAdd, groupsToModify, groupsToDelete, groupDeps, groupOrder>>

\* return nil
Return ==
    /\ pc = "groups"
    /\ groupOrder = <<>> /\ groupsToDelete = {} /\ peopleToDelete = {} /\ svcAcctsToDelete = {}
    /\ pc' = "returned"
    /\ UNCHANGED <<cfg, dir, passStart, pass, aux, err, ops, searched, worklists>>

\* The same configuration is applied again after a pass that succeeded.
NextPass ==
    /\ pc = "returned"
    /\ err = "none"
    /\ pass < MaxPasses
    /\ pass' = pass + 1
    /\ passStart' = dir
    /\ ops' = <<>>
    /\ searched' = {}
    /\ pc' = "ensurePeopleOU"
    /\ peopleToAdd' = {} /\ peopleToModify' = {} /\ peopleToDelete' = {}
    /\ svcAcctsToAdd' = {} /\ svcAcctsToModify' = {} /\ svcAcctsToDelete' = {}
    /\ groupsToAdd' = {} /\ groupsToModify' = {} /\ groupsToDelete' = {}
    /\ groupDeps' = NoAttrs /\ groupOrder' = <<>>
    /\ warnings' = {}
    /\ UNCHANGED <<cfg, dir, err, resolved, failing, pollvars, cmdvars, conns>>

Next ==
    \/ EnsureOUExists
    \/ Classify
    \/ AddPeople
    \/ ModifyPeople
    \/ AddSvcAccts
    \/ ModifySvcAccts
    \/ SortGroups
    \/ ApplyGroup
    \/ DeleteGroups
    \/ DeletePeople
    \/ DeleteSvcAccts
    \/ Return
    \/ NextPass

Spec == Init /\ [][Next]_vars

----------------------------------------------------------------------------
(* Reading the request log of the current pass *)

Requests(kind, dn) == {i \in DOMAIN ops : ops[i].op = kind /\ ops[i].dn = dn}

AccountSyncs == {"SyncPerson", "SyncSvcAcct"}

GroupStages == {"SyncGroup", "groupsToDelete"}

AccountDeletes == {"peopleToDelete", "svcAcctsToDelete"}

Succeeded == pc = "returned" /\ err = "none"

----------------------------------------------------------------------------
(* C1: replacing a group's sole member *)

\* The directory holds group G and account X when the pass starts; the
\* configuration declares G with the single member Y, declares Y, and does
\* not declare X; Y has no entry yet.
SwapScenario(G, X, Y) ==
    /\ G \in DOMAIN cfg.Group
    /\ cfg.Group[G].People = <<Y>>
    /\ cfg.Group[G].SvcAccts = <<>>
    /\ cfg.Group[G].Groups = <<>>
    /\ Y \in DOMAIN cfg.Person
    /\ X \notin DOMAIN cfg.Person
    /\ GroupToDN(cfg, G) \in DOMAIN passStart
    /\ PersonToDN(cfg, X) \in DOMAIN passStart
    /\ PersonToDN(cfg, Y) \notin DOMAIN passStart

SwapOpsExact(G, X, Y) ==
    LET g == GroupToDN(cfg, G)
        x == PersonToDN(cfg, X)
        y == PersonToDN(cfg, Y)
    IN /\ Requests("delete", g) = {}
       /\ Cardinality(Requests("modify", g)) <= 1
       /\ Cardinality(Requests("create", y)) <= 1
       /\ Cardinality(Requests("delete", x)) <= 1
       /\ \A i \in Requests("modify", g) : \E j \in Requests("create", y) : j < i
       /\ \A i \in Requests("delete", x) : \E j \in Requests("modify", g) : j < i
       /\ Succeeded => /\ Cardinality(Requests("modify", g)) = 1
                       /\ Cardinality(Requests("create", y)) = 1
                       /\ Cardinality(Requests("delete", x)) = 1

\* C1: in a pass of the swap scenario no delete is issued for G, and the pass
\* issues exactly one modify of G, one create of Y and one delete of X, in the
\* order create(Y), modify(G), delete(X).
C1_SwapKeepsGroup ==
    \A X \in {"alice", StaleUID} :
        SwapScenario("admins", X, "bob") => SwapOpsExact("admins", X, "bob")

\* The same statement for the configurations whose people and service-account
\* OUs do not contain one another.
AccountOUsApart ==
    /\ ~InSubtree(cfg.EnforcedPeopleOU, cfg.EnforcedSvcAcctOU)
    /\ ~InSubtree(cfg.EnforcedSvcAcctOU, cfg.EnforcedPeopleOU)

C1_SwapKeepsGroupApart ==
    AccountOUsApart =>
        \A X \in {"alice", StaleUID} :
            SwapScenario("admins", X, "bob") => SwapOpsExact("admins", X, "bob")

----------------------------------------------------------------------------
(* C2: stale accounts are deleted after all group operations *)

\* C2: once a delete of a stale account or service account has been issued,
\* every group operation of the pass (SyncGroup of each configured group,
\* delete of each stale group) lies before it and none is still to come.
C2_GroupOpsBeforeAccountDeletes ==
    \A j \in DOMAIN ops :
        ops[j].by \in AccountDeletes =>
            /\ \A i \in DOMAIN ops : ops[i].by \in GroupStages => i < j
            /\ pc \in {"groups", "returned"}
            /\ groupOrder = <<>>
            /\ groupsToDelete = {}

C2_Witness ==
    \E i, j \in DOMAIN ops :
        /\ i < j
        /\ ops[i].by = "SyncGroup"
        /\ ops[j].by \in AccountDeletes
        /\ \E k \in DOMAIN ops : ops[k].by = "groupsToDelete"

----------------------------------------------------------------------------
(* C3: accounts are applied before any group is touched *)

\* C3: every create or modify of a configured account or service account is
\* issued before the first request for any group, and when a group is written
\* each of its member DNs has already been created or modified in this pass.
C3_AccountsBeforeGroups ==
    /\ \A i, j \in DOMAIN ops :
          (ops[i].by \in AccountSyncs /\ ops[j].by \in GroupStages) => i < j
    /\ \A j \in DOMAIN ops :
          (ops[j].by = "SyncGroup" /\ ops[j].op \in {"create", "modify"}) =>
              \A m \in Range(ops[j].attrs.member) :
                  \E i \in 1..(j - 1) :
                      /\ ops[i].by \in AccountSyncs
                      /\ ops[i].dn = m
                      /\ ops[i].err = "none"

C3_Witness ==
    \E i, j \in DOMAIN ops :
        /\ ops[i].by = "SyncPerson" /\ ops[i].op = "create"
        /\ ops[j].by = "SyncGroup" /\ ops[j].op = "modify"
        /\ ops[i].dn \in Range(ops[j].attrs.member)
        /\ \E k \in DOMAIN ops : ops[k].by = "SyncSvcAcct"

----------------------------------------------------------------------------
(* C4: the delete-stale stage and the declared entries *)

ConfiguredDNs(c) ==
    {PersonToDN(c, uid) : uid \in DOMAIN c.Person}
    \cup {SvcAcctToDN(c, uid) : uid \in DOMAIN c.SvcAcct}
    \cup {GroupToDN(c, g) : g \in DOMAIN c.Group}

StaleDeletes == AccountDeletes \cup {"groupsToDelete"}

\* C4: for every configuration that Validate accepts, the delete-stale stage
\* never issues a delete for the DN of a declared account, service account or
\* group.
C4_StaleDeletesSpareDeclared ==
    \A i \in DOMAIN ops : ops[i].by \in StaleDeletes => ops[i].dn \notin ConfiguredDNs(cfg)

----------------------------------------------------------------------------
(* C5: the order in which groups are applied *)

Embeds(c, g, h) == g \in DOMAIN c.Group /\ h \in DOMAIN c.Group /\ h \in Range(c.Group[g].Groups)

RECURSIVE ReachableFrom(_, _, _)
ReachableFrom(c, frontier, seen) ==
    LET next == {h \in DOMAIN c.Group : \E g \in frontier : Embeds(c, g, h)} \ seen
    IN IF next = {} THEN seen ELSE ReachableFrom(c, next, seen \cup next)

Acyclic(c) == \A g \in DOMAIN c.Group : g \notin ReachableFrom(c, {g}, {})

\* C5: for an acyclic nested-group graph, every group stands in the result of
\* topologicalSortGroups before any group that embeds it.
C5_NestedGroupsFirst ==
    (pc = "groups" /\ Acyclic(cfg)) =>
        \A i, j \in DOMAIN groupOrder :
            Embeds(cfg, groupOrder[i], groupOrder[j]) => j < i

----------------------------------------------------------------------------
(* C6: groups that resolve to no member *)

EmptyGroups(c) == {g \in DOMAIN c.Group : Len(MemberDNs(c, g)) = 0}

\* C6: no create or modify of a group carries an empty member list; a
\* configured group with no resolved member gets no create and no modify, its
\* entry is deleted if it existed, and SyncGroup meets no directory refusal.
C6_NoEmptyGroupWritten ==
    /\ \A i \in DOMAIN ops :
          (ops[i].op \in {"create", "modify"} /\ HasClass(ops[i].attrs, "groupOfNames")) =>
              Len(ops[i].attrs.member) > 0
    /\ \A i \in DOMAIN ops : ops[i].by = "SyncGroup" => ops[i].err \in {"none", "failed"}
    /\ \A g \in EmptyGroups(cfg) :
          LET dn == GroupToDN(cfg, g)
          IN /\ Requests("create", dn) = {}
             /\ Requests("modify", dn) = {}
             /\ dn \notin DOMAIN passStart => Requests("delete", dn) = {}
             /\ Succeeded =>
                   /\ dn \notin DOMAIN dir
                   /\ dn \in DOMAIN passStart =>
                         \E i \in Requests("delete", dn) :
                             ops[i].by = "SyncGroup" /\ Cardinality(Requests("delete", dn)) = 1

C6_Witness ==
    /\ Succeeded
    /\ \E g \in EmptyGroups(cfg) :
          GroupToDN(cfg, g) \in DOMAIN passStart /\ Requests("delete", GroupToDN(cfg, g)) # {}
    /\ \E g \in EmptyGroups(cfg) : GroupToDN(cfg, g) \notin DOMAIN passStart

----------------------------------------------------------------------------
(* C7: nothing outside the enforced OUs is touched *)

Enforced(dn) == \E ou \in EnforcedOUs(cfg) : InSubtree(dn, ou)

\* C7: every search base and every create, modify and delete of a pass is an
\* enforced OU or lies below one, every DN classified for deletion lies below
\* one, and the entries outside the enforced OUs stay as they were.
C7_OnlyEnforcedOUsTouched ==
    /\ \A i \in DOMAIN ops : Enforced(ops[i].dn)
    /\ \A base \in searched : Enforced(base)
    /\ \A dn \in peopleToDelete \cup svcAcctsToDelete \cup groupsToDelete : Enforced(dn)
    /\ \A dn \in DOMAIN UnmanagedEntries :
          ~Enforced(dn) /\ dn \in DOMAIN dir /\ dir[dn] = UnmanagedEntries[dn]

C7_Witness ==
    /\ Succeeded
    /\ Requests("modify", PersonToDN(cfg, "alice")) # {}
    /\ Requests("modify", GroupToDN(cfg, "admins")) # {}
    /\ \E i \in DOMAIN ops : ops[i].by \in StaleDeletes

----------------------------------------------------------------------------
(* C8: the directory after a successful pass *)

ManagedEntries(d) ==
    {dn \in DOMAIN d : /\ Enforced(dn)
                       /\ HasClass(d[dn], "inetOrgPerson") \/ HasClass(d[dn], "groupOfNames")}

ExpectedEntries(c) ==
    {PersonToDN(c, uid) : uid \in DOMAIN c.Person}
    \cup {SvcAcctToDN(c, uid) : uid \in DOMAIN c.SvcAcct}
    \cup {GroupToDN(c, g) : g \in DOMAIN c.Group \ EmptyGroups(c)}

\* C8: after a pass that returns without error the account and group entries
\* under the enforced OUs are exactly the configured accounts and service
\* accounts and the configured groups with a resolved member, each group
\* holding exactly its resolved member DNs.
C8_DirectoryMatchesConfig ==
    Succeeded =>
        /\ ManagedEntries(dir) = ExpectedEntries(cfg)
        /\ \A g \in DOMAIN cfg.Group \ EmptyGroups(cfg) :
              GroupToDN(cfg, g) \in DOMAIN dir =>
                  Range(dir[GroupToDN(cfg, g)].member) = Range(MemberDNs(cfg, g))

C8_DirectoryMatchesConfigApart ==
    AccountOUsApart => C8_DirectoryMatchesConfig

----------------------------------------------------------------------------
(* C9, C10: a second pass with the same configuration *)

NonEmptyGroupDNs(c) == {GroupToDN(c, g) : g \in DOMAIN c.Group \ EmptyGroups(c)}

AccountDNs(c) ==
    {PersonToDN(c, uid) : uid \in DOMAIN c.Person}
    \cup {SvcAcctToDN(c, uid) : uid \in DOMAIN c.SvcAcct}

C10_SecondPassChangesNothing ==
    pass = 2 =>
        /\ \A i \in DOMAIN ops : ops[i].op = "modify" /\ ops[i].err \in {"none", "failed"}
        /\ \A dn \in DOMAIN passStart : Enforced(dn) => dn \in DOMAIN dir /\ dir[dn] = passStart[dn]
        /\ \A dn \in DOMAIN dir : Enforced(dn) => dn \in DOMAIN passStart

C10_SecondPassChangesNothingApart ==
    AccountOUsApart => C10_SecondPassChangesNothing

----------------------------------------------------------------------------
(* internal/model: GetGroupMembers applied to bounded group graphs *)

\* Group graphs with nesting two levels deep, mutual nesting, a group that
\* nests itself, a reference to an undeclared group and to an undeclared uid.
ResolverGroups ==
    { [g \in D |-> gm[g]] :
      gm \in [admins : { [Description |-> "Administrators", PosixGidNumber |-> 0,
                          People |-> p, SvcAccts |-> <<>>, Groups |-> n] :
                         p \in {<<>>, <<"bob">>, <<"alice", "ghost">>},
                         n \in {<<>>, <<"staff">>, <<"admins">>, <<"staff", "ops">>} },
             staff :  { [Description |-> "Staff", PosixGidNumber |-> 10200,
                          People |-> <<>>, SvcAccts |-> a, Groups |-> n] :
                         a \in {<<>>, <<"backup">>},
                         n \in {<<>>, <<"admins">>, <<"ops">>} },
             ops :    { [Description |-> "Operations", PosixGidNumber |-> 0,
                          People |-> p, SvcAccts |-> <<>>, Groups |-> n] :
                         p \in {<<"bob">>, <<"alice">>},
                         n \in {<<>>, <<"admins">>, <<"contractors">>} }],
      D \in SUBSET {"admins", "staff", "ops"} }

ResolverConfigs ==
    { [URI |-> "ldap://localhost:389", BindDN |-> "cn=Directory Manager", Password |-> "secret",
       PasswordFile |-> "",
       EnforcedPeopleOU |-> PeopleOUName, EnforcedSvcAcctOU |-> SvcAcctOUName,
       EnforcedGroupOU |-> GroupOUName,
       Person |-> [u \in P |-> PersonDefs[u]],
       SvcAcct |-> SvcAcctDefs,
       Group |-> G] :
      P \in {{"alice", "bob"}, {"bob"}}, G \in ResolverGroups }

ResolverInit ==
    /\ cfg \in ResolverConfigs
    /\ dir = UnmanagedEntries
    /\ passStart = dir
    /\ pass = 1
    /\ pc = "returned"
    /\ err = "none"
    /\ ops = <<>>
    /\ searched = {}
    /\ NoWork
    /\ resolved = NoAttrs
    /\ failing = FALSE
    /\ PollOff
    /\ CmdOff
    /\ conns = 0
    /\ warnings = {}

\* One call of GetGroupMembers, as GetGroupAttributes makes it.
ResolveGroup ==
    /\ \E groupname \in DOMAIN cfg.Group \ DOMAIN resolved :
          resolved' = (groupname :> GetGroupMembers(groupname, cfg.Group, cfg.Person, cfg.SvcAcct,
                                                    cfg.EnforcedPeopleOU, cfg.EnforcedSvcAcctOU,
                                                    cfg.EnforcedGroupOU)) @@ resolved
    /\ UNCHANGED <<cfg, dir, passStart, pass, pc, err, ops, searched, worklists, failing, pollvars,
                   cmdvars, conns, warnings>>

ResolverNext == ResolveGroup

ResolverSpec == ResolverInit /\ [][ResolverNext]_vars

----------------------------------------------------------------------------
(* C11, C12: what GetGroupMembers returns *)

\* The group itself and every declared group it reaches through Groups lists.
NestedClosure(c, g) == {g} \cup ReachableFrom(c, {g}, {})

ListedAccountDNs(c, gs) ==
    {PersonToDN(c, uid) : uid \in UNION {Range(c.Group[h].People) : h \in gs} \cap DOMAIN c.Person}
    \cup {SvcAcctToDN(c, uid) : uid \in UNION {Range(c.Group[h].SvcAccts) : h \in gs} \cap DOMAIN c.SvcAcct}

ResolvedDNs(g) == {resolved[g][i].DN : i \in DOMAIN resolved[g]}

\* C11: the member DNs GetGroupMembers returns for a group are exactly the DNs
\* of the configured accounts and service accounts listed in the group or in a
\* group it reaches through nesting, and none of them is the DN of a group.
C11_MembersAreFlattenedAccounts ==
    \A g \in DOMAIN resolved :
        /\ ResolvedDNs(g) = ListedAccountDNs(cfg, NestedClosure(cfg, g))
        /\ \A i \in DOMAIN resolved[g] :
              /\ resolved[g][i].Type \in {"person", "svcacct"}
              /\ \A h \in DOMAIN cfg.Group : resolved[g][i].DN # GroupToDN(cfg, h)

\* admins nests staff and ops, staff nests ops: three groups flattened.
C11_Witness ==
    /\ "admins" \in DOMAIN resolved
    /\ cfg.Group["admins"].Groups = <<"staff", "ops">>
    /\ NestedClosure(cfg, "admins") = {"admins", "staff", "ops"}
    /\ Cardinality(ResolvedDNs("admins")) = 3

MutuallyNested(c, a, b) ==
    /\ a \in DOMAIN c.Group /\ b \in DOMAIN c.Group /\ a # b
    /\ c.Group[a].Groups = <<b>>
    /\ c.Group[b].Groups = <<a>>

\* C12: GetGroupMembers returns for every group graph, cyclic ones included;
\* for two groups that nest each other it returns the direct members of both,
\* and for a group that nests only itself its direct members.
C12_CyclesResolve ==
    \A a \in DOMAIN resolved :
        /\ \A b \in DOMAIN cfg.Group :
              MutuallyNested(cfg, a, b) => ResolvedDNs(a) = ListedAccountDNs(cfg, {a, b})
        /\ cfg.Group[a].Groups = <<a>> => ResolvedDNs(a) = ListedAccountDNs(cfg, {a})

C12_Witness ==
    /\ MutuallyNested(cfg, "admins", "staff")
    /\ {"admins", "staff"} \subseteq DOMAIN resolved
    /\ Cardinality(ResolvedDNs("admins")) = 2
    /\ ResolvedDNs("staff") = ResolvedDNs("admins")

----------------------------------------------------------------------------
(* cmd/ldapenforcer sync --poll: the polling loop *)

\* Number of modifications made to the configuration files.
MaxEdits == 2

\* pollLDAPInterval in units of pollConfigInterval.
LDAPInterval == 2

\* What LoadConfig makes of the files: two configurations that Validate
\* accepts, one it rejects (no password), and files that cannot be decoded.
DiskContents == {"A", "B", "nopassword", "undecodable", "missing"}

ConfigA ==
    [URI |-> "ldap://localhost:389", BindDN |-> "cn=Directory Manager", Password |-> "secret",
     PasswordFile |-> "", MainLogLevel |-> "INFO",
     EnforcedPeopleOU |-> PeopleOUName, EnforcedSvcAcctOU |-> SvcAcctOUName,
     EnforcedGroupOU |-> GroupOUName,
     Person |-> [u \in {"bob"} |-> PersonDefs[u]],
     SvcAcct |-> NoAttrs,
     Group |-> [g \in {"admins"} |->
                   [Description |-> "Administrators", PosixGidNumber |-> 0,
                    People |-> <<"bob">>, SvcAccts |-> <<>>, Groups |-> <<>>]]]

\* ConfigB keeps the bind password in a file next to the configuration file.
ConfigB ==
    [ConfigA EXCEPT !.Person = NoAttrs, !.SvcAcct = SvcAcctDefs, !.Group = NoAttrs,
                    !.Password = "", !.PasswordFile = "ldap.secret"]

DiskConfig(content) ==
    CASE content = "A" -> ConfigA
      [] content = "B" -> ConfigB
      [] content = "nopassword" -> [ConfigB EXCEPT !.PasswordFile = ""]

\* os.Getenv: the value of a variable, "" when it is not set.
Getenv(e, name) == IF name \in DOMAIN e THEN e[name] ELSE ""

\* AddFlags: the default with which each flag is registered.
FlagDefault(name) == IF name = "log-level" THEN "INFO" ELSE ""

\* flags.GetString: the value given on the command line, else the default.
GetString(f, name) == IF name \in DOMAIN f THEN f[name] ELSE FlagDefault(name)

\* One "if val != "" { c.field = val }" of MergeWithEnv and MergeWithFlags.
Override(c, field, val) == IF val # "" THEN [c EXCEPT ![field] = val] ELSE c

MergeWithEnv(c, e) ==
    Override(Override(Override(c, "URI", Getenv(e, "LDAPENFORCER_URI")),
                      "BindDN", Getenv(e, "LDAPENFORCER_BIND_DN")),
             "MainLogLevel", Getenv(e, "LDAPENFORCER_LOG_LEVEL"))

MergeWithFlags(c, f) ==
    Override(Override(Override(c, "URI", GetString(f, "ldap-uri")),
                      "BindDN", GetString(f, "bind-dn")),
             "MainLogLevel", GetString(f, "log-level"))

\* What PersistentPreRunE makes of the configuration LoadConfig returned.
Merged(file, e, f) == MergeWithFlags(MergeWithEnv(file, e), f)

\* The environment of the polling process: the bind DN comes from a variable.
PollEnv == ("LDAPENFORCER_BIND_DN" :> "cn=sync,dc=example,dc=com")

\* toml.DecodeFile succeeds.
Decodable(content) == content \notin {"undecodable", "missing"}

Edits == modTime["main"]

\* os.Stat of a configuration file returns an error: the files are gone.
StatFails == disk = "missing"

\* CheckConfigFilesChanged returns an error: a recorded file cannot be examined.
CheckConfigFilesError == DOMAIN configFileModTimes # {} /\ StatFails

\* CheckConfigFilesChanged: some recorded modification time differs.
CheckConfigFilesChanged ==
    \E f \in DOMAIN configFileModTimes : modTime[f] # configFileModTimes[f]

\* runSync started without waiting for its return.
RunSyncDetached(position) ==
    /\ loop' = "select"
    /\ inFlight' = inFlight + 1
    /\ pc' = "connect"
    /\ err' = "none"
    /\ ops' = <<>>
    /\ searched' = {}
    /\ passStart' = dir
    /\ peopleToAdd' = {} /\ peopleToModify' = {} /\ peopleToDelete' = {}
    /\ svcAcctsToAdd' = {} /\ svcAcctsToModify' = {} /\ svcAcctsToDelete' = {}
    /\ groupsToAdd' = {} /\ groupsToModify' = {} /\ groupsToDelete' = {}
    /\ groupDeps' = NoAttrs /\ groupOrder' = <<>>
    /\ warnings' = {}
    /\ UNCHANGED <<dir, pass, resolved, failing, cmdvars, conns>>

\* runSync is called: a pass starts with NewClient.
RunSync(position) ==
    /\ loop' = position
    /\ inFlight' = inFlight + 1
    /\ pc' = "connect"
    /\ err' = "none"
    /\ ops' = <<>>
    /\ searched' = {}
    /\ passStart' = dir
    /\ peopleToAdd' = {} /\ peopleToModify' = {} /\ peopleToDelete' = {}
    /\ svcAcctsToAdd' = {} /\ svcAcctsToModify' = {} /\ svcAcctsToDelete' = {}
    /\ groupsToAdd' = {} /\ groupsToModify' = {} /\ groupsToDelete' = {}
    /\ groupDeps' = NoAttrs /\ groupOrder' = <<>>
    /\ warnings' = {}
    /\ UNCHANGED <<dir, pass, resolved, failing, cmdvars, conns>>

\* runSync has returned to the statement of the loop that called it; the
\* client.Close() it deferred once it had a client has run.
Returned(position) ==
    /\ loop = position
    /\ pc = "returned"
    /\ inFlight' = inFlight - 1
    /\ conns' = IF err # "noClient" THEN conns - 1 ELSE conns

\* What the return of runSync leaves as it is.
PassKept ==
    UNCHANGED <<cfg, dir, passStart, pass, pc, err, ops, searched, worklists, resolved, failing,
                cmdvars, warnings>>

PassUntouched == PassKept /\ UNCHANGED conns

PollInit ==
    /\ disk = "A"
    /\ env = PollEnv
    /\ flags = NoAttrs
    /\ cfg = Merged(DiskConfig(disk), env, flags)
    /\ Validate(cfg)
    /\ dir = UnmanagedEntries
    /\ passStart = dir
    /\ pass = 1
    /\ pc = "connect"
    /\ err = "none"
    /\ ops = <<>>
    /\ searched = {}
    /\ NoWork
    /\ resolved = NoAttrs
    /\ failing \in BOOLEAN
    /\ loop = "initialSync"
    /\ inFlight = 1
    /\ modTime = [f \in Files |-> 0]
    /\ configFileModTimes = modTime
    /\ loadedAt = 0
    /\ configTick = FALSE /\ ldapTick = FALSE /\ retryElapsed = FALSE /\ sigPending = FALSE
    /\ sinceLastSync = 0
    /\ ldapPhase = 0
    /\ cmd = "sync" /\ arg = "" /\ report = <<>>
    /\ dryRun \in BOOLEAN
    /\ conns = 0
    /\ warnings = {}

\* ldap.NewClient, first half: ldap.DialURL opens the connection or fails.
\* "noClient" is the error of a command that got no client from NewClient.
NewClient ==
    /\ pc = "connect"
    /\ \/ /\ cfg.URI # ""
          /\ conns' = conns + 1
          /\ pc' = "bind"
          /\ UNCHANGED err
       \/ /\ cfg.URI = "" \/ failing
          /\ pc' = "returned"
          /\ err' = "noClient"
          /\ UNCHANGED conns
    /\ UNCHANGED <<cfg, dir, passStart, pass, ops, searched, worklists,
                   resolved, failing, pollvars, cmdvars, warnings>>

\* GetPassword: the password of the configuration, or the contents of the
\* password file, which lies in the directory of the configuration files; the
\* empty password without an error if neither is set.
GetPassword(c) ==
    IF c.Password # "" THEN [password |-> c.Password, err |-> FALSE]
    ELSE IF c.PasswordFile # ""
         THEN IF StatFails THEN [password |-> "", err |-> TRUE]
              ELSE [password |-> "secret", err |-> FALSE]
         ELSE [password |-> "", err |-> FALSE]

\* conn.Bind refuses an empty password before it sends anything.
EmptyPassword(c) == GetPassword(c).password = ""

\* Where the command goes on once the client exists: runSync with --dry-run
\* calls simulateSync, everything else EnsureManagedOUsExist.
AfterNewClient == IF cmd = "sync" /\ dryRun THEN "simulate" ELSE "ensurePeopleOU"

\* NewClient that returns its error without closing the connection it dialled.
NewClientBindLeaking ==
    /\ pc = "bind"
    /\ IF GetPassword(cfg).err
       THEN /\ pc' = "returned"
            /\ err' = "noClient"
       ELSE \/ /\ ~EmptyPassword(cfg)
               /\ pc' = AfterNewClient
               /\ UNCHANGED err
            \/ /\ failing \/ EmptyPassword(cfg)
               /\ pc' = "returned"
               /\ err' = "noClient"
    /\ UNCHANGED <<cfg, dir, passStart, pass, ops, searched, worklists,
                   resolved, failing, pollvars, cmdvars, warnings, conns>>

\* ldap.NewClient, second half: GetPassword and conn.Bind; a failure of either
\* closes the connection before NewClient returns the error.
NewClientBind ==
    /\ pc = "bind"
    /\ IF GetPassword(cfg).err
       THEN /\ conns' = conns - 1
            /\ pc' = "returned"
            /\ err' = "noClient"
       ELSE \/ /\ ~EmptyPassword(cfg)
               /\ pc' = AfterNewClient
               /\ UNCHANGED <<err, conns>>
            \/ /\ failing \/ EmptyPassword(cfg)
               /\ conns' = conns - 1
               /\ pc' = "returned"
               /\ err' = "noClient"
    /\ UNCHANGED <<cfg, dir, passStart, pass, ops, searched, worklists,
                   resolved, failing, pollvars, cmdvars, warnings>>

\* A line of the report: its text, the count it prints, the DN it names and
\* the attributes listed below it.
ReportLine(line, count, dn, attrs) == [line |-> line, count |-> count, dn |-> dn, attrs |-> attrs]

\* simulateSync: four lines, three of them with a count, none with a DN.
SimulatedReport(c) ==
    << ReportLine("Would ensure managed OUs exist", 0, "", NoAttrs),
       ReportLine("Would sync people", Cardinality(DOMAIN c.Person), "", NoAttrs),
       ReportLine("Would sync service accounts", Cardinality(DOMAIN c.SvcAcct), "", NoAttrs),
       ReportLine("Would sync groups", Cardinality(DOMAIN c.Group), "", NoAttrs) >>

\* runSync with --dry-run: simulateSync prints its summary and returns nil.
SimulateSync ==
    /\ pc = "simulate"
    /\ report' = SimulatedReport(cfg)
    /\ pc' = "returned"
    /\ UNCHANGED <<cfg, dir, passStart, pass, err, ops, searched, worklists,
                   resolved, failing, pollvars, cmd, arg, dryRun, env, flags, conns, warnings>>

(* The environment *)

\* One config interval passes: both tickers and the retry timer run on.
Advance ==
    /\ loop # "exited"
    /\ configTick' = TRUE
    /\ ldapPhase' = (ldapPhase + 1) % LDAPInterval
    /\ ldapTick' = (ldapTick \/ ldapPhase + 1 = LDAPInterval)
    /\ retryElapsed' = (retryElapsed \/ loop = "retryWait")
    /\ sinceLastSync' = IF sinceLastSync < LDAPInterval THEN sinceLastSync + 1 ELSE sinceLastSync
    /\ UNCHANGED <<loop, inFlight, disk, modTime, configFileModTimes, loadedAt, sigPending>>
    /\ PassUntouched

\* Somebody writes one of the configuration files.
EditConfig ==
    /\ loop # "exited"
    /\ Edits < MaxEdits
    /\ \E f \in Files, content \in DiskContents :
          /\ modTime' = [modTime EXCEPT ![f] = @ + 1]
          /\ disk' = content
    /\ UNCHANGED <<loop, inFlight, configFileModTimes, loadedAt, configTick, ldapTick,
                   retryElapsed, sigPending, sinceLastSync, ldapPhase>>
    /\ PassUntouched

\* SIGINT or SIGTERM is delivered to sigChan.
Signal ==
    /\ loop # "exited"
    /\ ~sigPending
    /\ sigPending' = TRUE
    /\ UNCHANGED <<loop, inFlight, disk, modTime, configFileModTimes, loadedAt,
                   configTick, ldapTick, retryElapsed, sinceLastSync, ldapPhase>>
    /\ PassUntouched

DirectoryFails ==
    /\ loop # "exited"
    /\ ~failing
    /\ failing' = TRUE
    /\ UNCHANGED <<cfg, dir, passStart, pass, pc, err, ops, searched, worklists, resolved, pollvars,
                   cmdvars, conns, warnings>>

DirectoryRecovers ==
    /\ loop # "exited"
    /\ failing
    /\ failing' = FALSE
    /\ UNCHANGED <<cfg, dir, passStart, pass, pc, err, ops, searched, worklists, resolved, pollvars,
                   cmdvars, conns, warnings>>

(* The start-up loop *)

\* The start-up loop left after the first sync whatever it returned.
InitialSyncReturnedAlways ==
    /\ Returned("initialSync")
    /\ loop' = "select"
    /\ sinceLastSync' = 0
    /\ UNCHANGED <<disk, modTime, configFileModTimes, loadedAt, configTick, ldapTick,
                   retryElapsed, sigPending, ldapPhase>>
    /\ PassKept

\* The first sync has returned: break with lastLDAPSync = time.Now(), or wait.
InitialSyncReturned ==
    /\ Returned("initialSync")
    /\ IF err = "none"
       THEN /\ loop' = "select"
            /\ sinceLastSync' = 0
            /\ UNCHANGED retryElapsed
       ELSE /\ loop' = "retryWait"
            /\ retryElapsed' = FALSE
            /\ UNCHANGED sinceLastSync
    /\ UNCHANGED <<disk, modTime, configFileModTimes, loadedAt, configTick, ldapTick,
                   sigPending, ldapPhase>>
    /\ PassKept

\* case <-time.After(pollConfigInterval): continue
RetryTimerFired ==
    /\ loop = "retryWait"
    /\ retryElapsed
    /\ retryElapsed' = FALSE
    /\ RunSync("initialSync")
    /\ UNCHANGED <<cfg, disk, modTime, configFileModTimes, loadedAt, configTick, ldapTick,
                   sigPending, sinceLastSync, ldapPhase>>

\* case sig := <-sigChan: return nil
RetryWaitSignal ==
    /\ loop = "retryWait"
    /\ sigPending
    /\ sigPending' = FALSE
    /\ loop' = "exited"
    /\ UNCHANGED <<inFlight, disk, modTime, configFileModTimes, loadedAt, configTick, ldapTick,
                   retryElapsed, sinceLastSync, ldapPhase>>
    /\ PassUntouched

(* The main polling loop *)

\* case <-configTicker.C: CheckConfigFilesChanged, then continue or reload.
ConfigTickFired ==
    /\ loop = "select"
    /\ configTick
    /\ configTick' = FALSE
    /\ loop' = IF ~CheckConfigFilesError /\ CheckConfigFilesChanged THEN "reloadLoad" ELSE "select"
    /\ UNCHANGED <<inFlight, disk, modTime, configFileModTimes, loadedAt, ldapTick,
                   retryElapsed, sigPending, sinceLastSync, ldapPhase>>
    /\ PassUntouched

\* reloadConfig, first half: LoadConfig, MergeWithFlags, cfg = newCfg.
ReloadLoadConfig ==
    /\ loop = "reloadLoad"
    /\ IF Decodable(disk)
       THEN /\ cfg' = MergeWithFlags(DiskConfig(disk), flags)
            /\ loadedAt' = Edits
            /\ loop' = "reloadInit"
       ELSE /\ loop' = "select"
            /\ UNCHANGED <<cfg, loadedAt>>
    /\ UNCHANGED <<inFlight, disk, modTime, configFileModTimes, configTick, ldapTick,
                   retryElapsed, sigPending, sinceLastSync, ldapPhase>>
    /\ UNCHANGED <<dir, passStart, pass, pc, err, ops, searched, worklists, resolved, failing,
                   cmdvars, conns, warnings>>

\* reloadConfig, second half: InitConfigFileMonitoring, then runSync.
ReloadInitMonitoring ==
    /\ loop = "reloadInit"
    /\ IF StatFails
       THEN /\ configFileModTimes' = NoAttrs
            /\ loop' = "select"
            /\ UNCHANGED inFlight
            /\ UNCHANGED <<dir, passStart, pass, pc, err, ops, searched, worklists, resolved, failing,
                           cmdvars, conns, warnings>>
       ELSE /\ configFileModTimes' = modTime
            /\ RunSync("reloadSync")
    /\ UNCHANGED <<cfg, disk, modTime, loadedAt, configTick, ldapTick,
                   retryElapsed, sigPending, sinceLastSync, ldapPhase>>

\* reloadConfig has returned: nil leads to line 124, an error back to select.
ReloadSyncReturned ==
    /\ Returned("reloadSync")
    /\ loop' = IF err = "none" THEN "reloaded" ELSE "select"
    /\ UNCHANGED <<disk, modTime, configFileModTimes, loadedAt, configTick, ldapTick,
                   retryElapsed, sigPending, sinceLastSync, ldapPhase>>
    /\ PassKept

\* if err := runSync(cfg, dryRun) after a reload that returned nil.
ConfigSyncStart ==
    /\ loop = "reloaded"
    /\ RunSync("configSync")
    /\ UNCHANGED <<cfg, disk, modTime, configFileModTimes, loadedAt, configTick, ldapTick,
                   retryElapsed, sigPending, sinceLastSync, ldapPhase>>

\* That runSync has returned: on nil lastLDAPSync = time.Time{}.
ConfigSyncReturned ==
    /\ Returned("configSync")
    /\ loop' = "select"
    /\ sinceLastSync' = IF err = "none" THEN LDAPInterval ELSE sinceLastSync
    /\ UNCHANGED <<disk, modTime, configFileModTimes, loadedAt, configTick, ldapTick,
                   retryElapsed, sigPending, ldapPhase>>
    /\ PassKept

\* case <-ldapTicker.C: runSync if timeSinceLastSync >= pollLDAPInterval.
LdapTickFired ==
    /\ loop = "select"
    /\ ldapTick
    /\ ldapTick' = FALSE
    /\ IF sinceLastSync >= LDAPInterval
       THEN RunSync("ldapSync")
       ELSE UNCHANGED <<loop, inFlight>> /\ PassUntouched
    /\ UNCHANGED <<cfg, disk, modTime, configFileModTimes, loadedAt, configTick,
                   retryElapsed, sigPending, sinceLastSync, ldapPhase>>

\* A failed drift sync returned from the command as its error.
LdapSyncReturnedFatal ==
    /\ Returned("ldapSync")
    /\ loop' = IF err = "none" THEN "select" ELSE "exited"
    /\ sinceLastSync' = IF err = "none" THEN 0 ELSE sinceLastSync
    /\ UNCHANGED <<disk, modTime, configFileModTimes, loadedAt, configTick, ldapTick,
                   retryElapsed, sigPending, ldapPhase>>
    /\ PassKept

\* The drift sync has returned: on nil lastLDAPSync = time.Now().
LdapSyncReturned ==
    /\ Returned("ldapSync")
    /\ loop' = "select"
    /\ sinceLastSync' = IF err = "none" THEN 0 ELSE sinceLastSync
    /\ UNCHANGED <<disk, modTime, configFileModTimes, loadedAt, configTick, ldapTick,
                   retryElapsed, sigPending, ldapPhase>>
    /\ PassKept

\* The signal ends the process wherever the loop stands.
SignalReceivedAnywhere ==
    /\ loop # "exited"
    /\ sigPending
    /\ sigPending' = FALSE
    /\ loop' = "exited"
    /\ UNCHANGED <<inFlight, disk, modTime, configFileModTimes, loadedAt, configTick, ldapTick,
                   retryElapsed, sinceLastSync, ldapPhase>>
    /\ PassUntouched

\* case <-sigChan: return nil
SignalReceived ==
    /\ loop = "select"
    /\ sigPending
    /\ sigPending' = FALSE
    /\ loop' = "exited"
    /\ UNCHANGED <<inFlight, disk, modTime, configFileModTimes, loadedAt, configTick, ldapTick,
                   retryElapsed, sinceLastSync, ldapPhase>>
    /\ PassUntouched

PollNext ==
    \/ NewClient
    \/ NewClientBind
    \/ SimulateSync
    \/ EnsureOUExists
    \/ Classify
    \/ AddPeople
    \/ ModifyPeople
    \/ AddSvcAccts
    \/ ModifySvcAccts
    \/ SortGroups
    \/ ApplyGroup
    \/ DeleteGroups
    \/ DeletePeople
    \/ DeleteSvcAccts
    \/ Return
    \/ Advance
    \/ EditConfig
    \/ Signal
    \/ DirectoryFails
    \/ DirectoryRecovers
    \/ InitialSyncReturned
    \/ RetryTimerFired
    \/ RetryWaitSignal
    \/ ConfigTickFired
    \/ ReloadLoadConfig
    \/ ReloadInitMonitoring
    \/ ReloadSyncReturned
    \/ ConfigSyncStart
    \/ ConfigSyncReturned
    \/ LdapTickFired
    \/ LdapSyncReturned
    \/ SignalReceived

PollSpec == PollInit /\ [][PollNext]_vars

\* Scheduling: a pass and the loop's own statements run on, time passes,
\* and select takes a case that is ready again and again (Go chooses among
\* the ready cases at random). Edits, signals and the directory's health are
\* at the environment's discretion.
PassStep ==
    \/ NewClient \/ NewClientBind \/ SimulateSync \/ EnsureOUExists \/ Classify \/ AddPeople \/ ModifyPeople
    \/ AddSvcAccts \/ ModifySvcAccts \/ SortGroups \/ ApplyGroup
    \/ DeleteGroups \/ DeletePeople \/ DeleteSvcAccts \/ Return

LoopStep ==
    \/ InitialSyncReturned \/ RetryTimerFired \/ ReloadLoadConfig \/ ReloadInitMonitoring
    \/ ReloadSyncReturned \/ ConfigSyncStart \/ ConfigSyncReturned \/ LdapSyncReturned

PollLive ==
    /\ PollInit /\ [][PollNext]_vars
    /\ WF_vars(PassStep)
    /\ WF_vars(LoopStep)
    /\ WF_vars(Advance)
    /\ SF_vars(ConfigTickFired)
    /\ SF_vars(LdapTickFired)

----------------------------------------------------------------------------
(* C13 .. C20: the polling loop *)

PassPositions == {"initialSync", "reloadSync", "configSync", "ldapSync"}

\* C13: at most one call of runSync is in flight; a pass starts only when none
\* is running, whatever ticks have fired meanwhile.
C13_OnePassInFlight ==
    [][/\ inFlight' <= 1
       /\ inFlight' > inFlight => (inFlight = 0 /\ pc = "returned")
       /\ pc' # "returned" => loop' \in PassPositions]_vars

\* Both tickers have fired while a pass is running.
C13_Witness ==
    /\ loop = "ldapSync" /\ inFlight = 1
    /\ pc = "accounts"
    /\ configTick /\ ldapTick

\* C14: once the configuration files have been modified n times, a pass
\* eventually runs with a configuration loaded after the n-th modification
\* (unless the process is cancelled or the files cannot be decoded).
C14_EditsReachAPass ==
    \A n \in 1..MaxEdits :
        [](Edits >= n => <>(\/ loop = "exited"
                            \/ ~Decodable(disk)
                            \/ inFlight > 0 /\ loadedAt >= n))

\* C15: a drift tick taken from ldapTicker.C always starts a pass.
C15_DriftTickRunsPass ==
    [][(loop = "select" /\ ldapTick /\ ~ldapTick') => loop' = "ldapSync"]_vars

DirectoryMatches == ManagedEntries(dir) = ExpectedEntries(cfg)

\* C16: after a failed pass another pass is started without any edit, and if
\* the directory stops failing a pass succeeds and, without --dry-run, leaves
\* the directory as the configuration describes it (unless the process is
\* cancelled).
C16_FailedPassRetried ==
    /\ [](pc = "returned" /\ err # "none" => <>(loop = "exited" \/ pc # "returned"))
    /\ (~dryRun /\ <>[](~failing)) =>
          [](pc = "returned" /\ err # "none" =>
                <>(loop = "exited" \/ (pc = "returned" /\ err = "none" /\ DirectoryMatches)))

\* The same for the runs in which cfg always passes Validate and the
\* configuration files do not stay away.
C16_FailedPassRetriedValid ==
    (~dryRun /\ <>[](~failing) /\ <>[](~StatFails) /\ []Validate(cfg)) =>
          [](pc = "returned" /\ err # "none" =>
                <>(loop = "exited" \/ (pc = "returned" /\ err = "none" /\ DirectoryMatches)))

\* C17: the loop ends only by taking a signal at one of its two selects; a
\* failed pass or a failed reload leads back to the main select.
C17_OnlySignalEndsLoop ==
    [][/\ (loop # "exited" /\ loop' = "exited") => (sigPending /\ loop \in {"select", "retryWait"})
       /\ (loop \in {"reloadSync", "configSync", "ldapSync"} /\ loop' # loop /\ err # "none")
             => loop' = "select"
       /\ (loop = "reloadLoad" /\ ~Decodable(disk)) => loop' \in {"reloadLoad", "select"}
       /\ (loop = "reloadInit" /\ StatFails) => loop' \in {"reloadInit", "select"}
       /\ (loop = "select" /\ CheckConfigFilesError) => loop' \in {"select", "ldapSync", "exited"}]_vars

\* The loop is back at its select with the last pass failed, the change
\* check failing and the last tick of configTicker consumed.
C17_Witness ==
    /\ loop = "select"
    /\ pc = "returned" /\ err # "none"
    /\ CheckConfigFilesError
    /\ CheckConfigFilesChanged
    /\ ~configTick

\* C18: no pass runs with a configuration that Validate rejects.
C18_PassesUseValidConfig == inFlight > 0 => Validate(cfg)

C20_SignalWaitsForPass ==
    [][/\ inFlight > 0 => loop' # "exited"
       /\ pc # "returned" => loop' # "exited"
       /\ loop' = "exited" => (inFlight' = 0 /\ pc' = "returned")]_vars

\* A signal is waiting while a pass has issued requests and is not finished.
C20_Witness ==
    /\ sigPending
    /\ inFlight = 1 /\ pc = "groups"
    /\ ops # <<>>

----------------------------------------------------------------------------
(* C21: connections *)

\* C21: at most one connection is open; one is open while a pass works with
\* its client; none is open once runSync has returned, so none at a select.
C21_ConnectionClosedOnReturn ==
    /\ conns \in {0, 1}
    /\ pc \notin {"connect", "returned"} => conns = 1
    /\ inFlight = 0 => conns = 0
    /\ loop \in {"select", "retryWait", "exited"} => conns = 0

\* The loop is at its select after a pass that failed while it had a client.
C21_Witness ==
    /\ loop = "select"
    /\ pc = "returned" /\ err = "failed"
    /\ searched # {}
    /\ conns = 0

----------------------------------------------------------------------------
(* C22: the first failure ends the pass *)

RECURSIVE ReplayOps(_, _, _)
\* The directory d after the requests log[i..] that succeeded.
ReplayOps(d, log, i) ==
    IF i > Len(log) THEN d
    ELSE IF log[i].err # "none" THEN ReplayOps(d, log, i + 1)
    ELSE ReplayOps((CASE log[i].op = "create" -> CreateEntry(d, log[i].dn, log[i].attrs)
                      [] log[i].op = "modify" -> ModifyEntry(d, log[i].dn, log[i].attrs)
                      [] log[i].op = "delete" -> DeleteEntry(d, log[i].dn)).dir,
                   log, i + 1)

\* C22: a request that failed is the last request of its pass: no request of
\* a later stage and no undoing request follows it; the pass has returned with
\* that error, a pass that failed at a search has returned too, and the
\* directory holds exactly what the successful requests before the failure
\* made of it.
C22_FirstFailureEndsPass ==
    /\ \A i \in DOMAIN ops : ops[i].err # "none" => i = Len(ops)
    /\ (ops # <<>> /\ ops[Len(ops)].err # "none") =>
           pc = "returned" /\ err = ops[Len(ops)].err
    /\ err # "none" => pc = "returned"
    /\ dir = ReplayOps(passStart, ops, 1)

\* A request failed after two others of the same pass had succeeded, with
\* stale entries still to delete.
C22_Witness ==
    /\ Len(ops) >= 3
    /\ ops[Len(ops)].err # "none"
    /\ ops[1].err = "none"
    /\ peopleToDelete \cup svcAcctsToDelete \cup groupsToDelete # {}
    /\ pc = "returned"

----------------------------------------------------------------------------
(* C23: the sort covers every configured group *)

Occurrences(seq, x) == Cardinality({i \in DOMAIN seq : seq[i] = x})

\* C23: topologicalSortGroups returns for every dependency graph, cyclic ones
\* included, and its result holds every configured group exactly once, the
\* groups without dependencies included; a pass that succeeds has called
\* SyncGroup for every configured group.
C23_SortCoversEveryGroup ==
    /\ [][(pc = "accounts" /\ pc' = "groups") =>
             \A g \in DOMAIN cfg.Group : Occurrences(groupOrder', g) = 1]_vars
    /\ [](Succeeded => \A g \in DOMAIN cfg.Group : GroupToDN(cfg, g) \in searched)

\* A pass over two groups that embed each other has succeeded, and so has
\* one before it.
C23_Witness ==
    /\ Succeeded
    /\ pass = 2
    /\ DOMAIN cfg.Group = {"admins", "staff"}
    /\ ~Acyclic(cfg)
    /\ \A g \in DOMAIN cfg.Group : GroupToDN(cfg, g) \in searched

----------------------------------------------------------------------------
(* C24: create, modify, delete *)

\* create, modify and delete are pairwise disjoint, cover the declared and the
\* observed DNs, and split them as the claim says.
Partitioned(create, modify, delete, declared, observed) ==
    /\ create \cap modify = {} /\ create \cap delete = {} /\ modify \cap delete = {}
    /\ create \cup modify \cup delete = declared \cup observed
    /\ create = declared \ observed
    /\ modify = declared \cap observed
    /\ delete = observed \ declared

\* The classification of the three kinds, read from the work lists.
ClassifiedRight ==
    /\ Partitioned({PersonToDN(cfg, uid) : uid \in peopleToAdd},
                   {PersonToDN(cfg, uid) : uid \in peopleToModify},
                   peopleToDelete,
                   {PersonToDN(cfg, uid) : uid \in DOMAIN cfg.Person},
                   GetExistingEntries(dir, cfg.EnforcedPeopleOU, "person"))
    /\ Partitioned({SvcAcctToDN(cfg, uid) : uid \in svcAcctsToAdd},
                   {SvcAcctToDN(cfg, uid) : uid \in svcAcctsToModify},
                   svcAcctsToDelete,
                   {SvcAcctToDN(cfg, uid) : uid \in DOMAIN cfg.SvcAcct},
                   GetExistingEntries(dir, cfg.EnforcedSvcAcctOU, "svcacct"))
    /\ Partitioned({GroupToDN(cfg, g) : g \in groupsToAdd},
                   {GroupToDN(cfg, g) : g \in groupsToModify},
                   groupsToDelete,
                   {GroupToDN(cfg, g) : g \in DOMAIN cfg.Group},
                   GetExistingEntries(dir, cfg.EnforcedGroupOU, "group"))

\* C24: the classification of a pass puts, for each kind, the declared
\* entities whose DN the search did not return into create, those it returned
\* into modify and the returned entries that are not declared into delete:
\* three disjoint sets that cover the declared and the observed DNs. A pass
\* that succeeds has sent a modify for every declared account that the
\* directory held when the pass started, whatever its attributes were.
C24_CreateModifyDelete ==
    /\ [][(pc = "classify" /\ pc' = "accounts") => ClassifiedRight']_vars
    /\ [](Succeeded =>
            /\ \A uid \in DOMAIN cfg.Person :
                  PersonToDN(cfg, uid) \in GetExistingEntries(passStart, cfg.EnforcedPeopleOU, "person")
                     => Requests("modify", PersonToDN(cfg, uid)) # {}
            /\ \A uid \in DOMAIN cfg.SvcAcct :
                  SvcAcctToDN(cfg, uid) \in GetExistingEntries(passStart, cfg.EnforcedSvcAcctOU, "svcacct")
                     => Requests("modify", SvcAcctToDN(cfg, uid)) # {})

\* The classification found a person to create, one to modify and one to
\* delete, and a group to delete.
C24_Witness ==
    /\ pc = "accounts"
    /\ ops = <<>>
    /\ peopleToAdd # {} /\ peopleToModify # {} /\ peopleToDelete # {}
    /\ groupsToDelete # {}

----------------------------------------------------------------------------
(* C25: references to unknown usernames *)

\* The usernames that group g lists and the configuration does not declare.
UnknownRefs(c, g) ==
    (Range(c.Group[g].People) \ DOMAIN c.Person)
    \cup (Range(c.Group[g].SvcAccts) \ DOMAIN c.SvcAcct)

DeclaredAccountDNs(c) ==
    {PersonToDN(c, uid) : uid \in DOMAIN c.Person}
    \cup {SvcAcctToDN(c, uid) : uid \in DOMAIN c.SvcAcct}

\* C25: a reference to an unknown username is in no member list the pass
\* writes; once the pass has classified, a warning names every such reference
\* with its group; a pass fails only when the directory fails a request or a
\* search or refuses the delete of an account, never while it resolves a
\* group; and a pass that succeeds has created or modified every declared
\* account and has written every group that has a member.
C25_UnknownRefsDropped ==
    /\ \A i \in DOMAIN ops :
          (ops[i].by = "SyncGroup" /\ ops[i].op \in {"create", "modify"}) =>
              Range(ops[i].attrs.member) \subseteq DeclaredAccountDNs(cfg)
    /\ (pc \in {"accounts", "groups"} \/ Succeeded) =>
          \A g \in DOMAIN cfg.Group : \A u \in UnknownRefs(cfg, g) : <<u, g>> \in warnings
    /\ err # "none" => err = "failed" \/ ops[Len(ops)].by \in AccountDeletes
    /\ Succeeded =>
          /\ \A dn \in DeclaredAccountDNs(cfg) :
                Requests("create", dn) \cup Requests("modify", dn) # {}
          /\ \A g \in DOMAIN cfg.Group \ EmptyGroups(cfg) :
                \E i \in Requests("create", GroupToDN(cfg, g)) \cup Requests("modify", GroupToDN(cfg, g)) :
                    ops[i].attrs.member = MemberDNs(cfg, g)

\* A pass has succeeded for a configuration in which admins lists the
\* undeclared ghost beside alice: admins was written with alice alone.
C25_Witness ==
    /\ Succeeded
    /\ "admins" \in DOMAIN cfg.Group
    /\ "ghost" \in UnknownRefs(cfg, "admins")
    /\ <<"ghost", "admins">> \in warnings
    /\ \E i \in DOMAIN ops :
          /\ ops[i].dn = GroupToDN(cfg, "admins")
          /\ ops[i].op \in {"create", "modify"}
          /\ ops[i].attrs.member = <<PersonToDN(cfg, "alice")>>
    /\ "bob" \in DOMAIN cfg.Person
    /\ Requests("create", PersonToDN(cfg, "bob")) # {}

----------------------------------------------------------------------------
(* cmd/ldapenforcer: sync, sync-person, sync-svcacct and sync-group run once *)

Commands == {"sync", "sync-person", "sync-svcacct", "sync-group"}

\* The arguments tried with each command; carol is declared nowhere.
CmdArgs(command) ==
    CASE command = "sync" -> {""}
      [] command = "sync-person" -> {"alice", "bob", "carol"}
      [] command = "sync-svcacct" -> {"backup"}
      [] command = "sync-group" -> {"admins"}

\* alice is a POSIX account, bob is not; admins lists bob.
ConfigC == [ConfigA EXCEPT !.Person = PersonDefs, !.SvcAcct = SvcAcctDefs]

\* ConfigC; ConfigC without any source of the bind password; ConfigC with a
\* group without description, with one and with three numbers in a posix
\* list, with a main log level of its own.
CmdConfigs ==
    { ConfigC,
      [ConfigC EXCEPT !.Password = ""],
      [ConfigC EXCEPT !.Group.admins.Description = ""],
      [ConfigC EXCEPT !.Person.alice.Posix = <<20069>>],
      [ConfigC EXCEPT !.SvcAcct.backup.Posix = <<1050, 1050, 100>>],
      [ConfigC EXCEPT !.MainLogLevel = "ERROR"] }

StaleSvcAcct == "oldsvc"

StaleGroup == "oldgroup"

\* The entry of uid as an earlier pass wrote it when uid was a POSIX account.
FormerPosixEntry(uid) ==
    ("uid" :> <<uid>>)
    @@ GetPersonAttributes([CN |-> "Former Name", GivenName |-> "", SN |-> "", Mail |-> "",
                            Posix |-> <<20070, 20101>>, Username |-> uid])

\* A directory that earlier passes filled: alice and backup without POSIX
\* attributes, bob with them, and a stale entry of each kind.
PopulatedDir(c) ==
    [ou \in EnforcedOUs(c) |-> OUAttributes(ou)]
    @@ (PersonToDN(c, "alice") :> FormerPersonEntry("alice"))
    @@ (PersonToDN(c, "bob") :> FormerPosixEntry("bob"))
    @@ (PersonToDN(c, StaleUID) :> FormerPersonEntry(StaleUID))
    @@ (SvcAcctToDN(c, "backup") :> FormerPersonEntry("backup"))
    @@ (SvcAcctToDN(c, StaleSvcAcct) :> FormerPersonEntry(StaleSvcAcct))
    @@ (GroupToDN(c, "admins") :> FormerGroupEntry(c, "admins"))
    @@ (GroupToDN(c, StaleGroup) :> FormerGroupEntry(c, StaleGroup))
    @@ UnmanagedEntries

\* An organizational unit that an administrator made below the people OU.
SubOUName == "ou=contractors," \o PeopleOUName

CmdDirs(c) ==
    { UnmanagedEntries, PopulatedDir(c),
      (SubOUName :> OUAttributes(SubOUName)) @@ PopulatedDir(c) }

\* The environments and command lines of the commands: nothing set, the
\* URI set, the main log level set.
CmdEnvs ==
    { NoAttrs,
      ("LDAPENFORCER_URI" :> "ldap://env.example.com:389"),
      ("LDAPENFORCER_LOG_LEVEL" :> "DEBUG") }

CmdFlags ==
    { NoAttrs,
      ("ldap-uri" :> "ldap://flag.example.com:389"),
      ("log-level" :> "WARN") }

\* LoadConfig has read the file into cfg; PersistentPreRunE is about to merge.
CmdInit ==
    /\ cmd \in Commands
    /\ arg \in CmdArgs(cmd)
    /\ dryRun \in BOOLEAN
    /\ report = <<>>
    /\ env \in CmdEnvs
    /\ flags \in CmdFlags
    /\ cfg \in CmdConfigs
    /\ dir \in CmdDirs(cfg)
    /\ passStart = dir
    /\ pass = 1
    /\ pc = "preRun"
    /\ err = "none"
    /\ ops = <<>>
    /\ searched = {}
    /\ NoWork
    /\ resolved = NoAttrs
    /\ failing \in BOOLEAN
    /\ PollOff
    /\ conns = 0
    /\ warnings = {}

\* What the steps of a command outside SyncAll leave as it is.
CmdKept == UNCHANGED <<cfg, dir, passStart, pass, ops, searched, worklists, resolved, failing,
                       pollvars, cmd, arg, dryRun, env, flags, warnings>>

\* PersistentPreRunE: MergeWithEnv, then MergeWithFlags, on the loaded file.
PersistentPreRunE ==
    /\ pc = "preRun"
    /\ cfg' = Merged(cfg, env, flags)
    /\ pc' = "start"
    /\ UNCHANGED <<dir, passStart, pass, err, ops, searched, worklists, aux>>

\* RunE of sync without --poll: Validate, then runSync.
SyncCmdStart ==
    /\ pc = "start"
    /\ cmd = "sync"
    /\ IF Validate(cfg)
       THEN pc' = "connect" /\ UNCHANGED err
       ELSE pc' = "exited" /\ err' = "invalid"
    /\ CmdKept
    /\ UNCHANGED <<report, conns>>

\* The map in which a single-entity command looks its argument up.
Declared(command) ==
    CASE command = "sync-person" -> DOMAIN cfg.Person
      [] command = "sync-svcacct" -> DOMAIN cfg.SvcAcct
      [] command = "sync-group" -> DOMAIN cfg.Group

\* RunE of sync-person, sync-svcacct and sync-group up to ldap.NewClient: the
\* argument is looked up in the configuration.
SyncOneCmdStart ==
    /\ pc = "start"
    /\ cmd # "sync"
    /\ IF arg \in Declared(cmd)
       THEN pc' = "connect" /\ UNCHANGED err
       ELSE pc' = "exited" /\ err' = "notFound"
    /\ CmdKept
    /\ UNCHANGED <<report, conns>>

\* What the single-entity command prints with --dry-run.
WouldSync ==
    CASE cmd = "sync-person" ->
           <<ReportLine("Would create/update person", 0, PersonToDN(cfg, arg),
                        GetPersonAttributes(cfg.Person[arg]))>>
      [] cmd = "sync-svcacct" ->
           <<ReportLine("Would create/update service account", 0, SvcAcctToDN(cfg, arg),
                        GetSvcAcctAttributes(cfg.SvcAcct[arg]))>>
      [] cmd = "sync-group" ->
           <<ReportLine("Would create/update group", 0, GroupToDN(cfg, arg),
                        GetGroupAttributes(cfg, arg, cfg.Group[arg]).attrs)>>

\* RunE of sync-person, sync-svcacct and sync-group after
\* EnsureManagedOUsExist: the --dry-run branch or the call of SyncPerson,
\* SyncSvcAcct, SyncGroup.
SyncOne ==
    /\ pc = "syncOne"
    /\ IF dryRun
       THEN /\ IF cmd = "sync-group" /\ GetGroupAttributes(cfg, arg, cfg.Group[arg]).err
               THEN err' = "noMembers" /\ UNCHANGED report
               ELSE report' = WouldSync /\ UNCHANGED err
            /\ pc' = "returned"
            /\ UNCHANGED <<cfg, dir, ops, searched>>
       ELSE /\ \E fault \in BOOLEAN :
                  CASE cmd = "sync-person" -> SyncPerson(arg, fault)
                    [] cmd = "sync-svcacct" -> SyncSvcAcct(arg, fault)
                    [] cmd = "sync-group" -> SyncGroup(arg, fault) /\ UNCHANGED cfg
            /\ UNCHANGED report
    /\ UNCHANGED <<passStart, pass, worklists, resolved, failing, pollvars, cmd, arg, dryRun, env, flags,
                   conns, warnings>>

\* The command returns: the client.Close() it deferred once NewClient had
\* given it a client runs.
CommandExit ==
    /\ pc = "returned"
    /\ pc' = "exited"
    /\ conns' = IF err # "noClient" THEN conns - 1 ELSE conns
    /\ CmdKept
    /\ UNCHANGED <<err, report>>

CmdNext ==
    \/ PersistentPreRunE
    \/ SyncCmdStart
    \/ SyncOneCmdStart
    \/ NewClient
    \/ NewClientBind
    \/ SimulateSync
    \/ EnsureOUExists
    \/ Classify
    \/ AddPeople
    \/ ModifyPeople
    \/ AddSvcAccts
    \/ ModifySvcAccts
    \/ SortGroups
    \/ ApplyGroup
    \/ DeleteGroups
    \/ DeletePeople
    \/ DeleteSvcAccts
    \/ Return
    \/ SyncOne
    \/ CommandExit

CmdSpec == CmdInit /\ [][CmdNext]_vars

----------------------------------------------------------------------------
(* C26 .. C30: dry runs, validation, POSIX status *)

\* C26: with --dry-run no command sends a create, modify or delete, the
\* creation of an enforced OU included: the directory stays as it was.
C26_DryRunIssuesNothing ==
    dryRun => ops = <<>> /\ dir = passStart

\* C27: sync --dry-run that has returned without error has searched the
\* enforced OUs as a live pass does and its report names, for every declared
\* person and service account, the DN and the attributes of the request a
\* live pass would send.
C27_DryRunReportsLiveOps ==
    (cmd = "sync" /\ dryRun /\ pc = "exited" /\ err = "none") =>
        /\ EnforcedOUs(cfg) \subseteq searched
        /\ \A uid \in DOMAIN cfg.Person :
              \E i \in DOMAIN report :
                  /\ report[i].dn = PersonToDN(cfg, uid)
                  /\ report[i].attrs = GetPersonAttributes(cfg.Person[uid])
        /\ \A uid \in DOMAIN cfg.SvcAcct :
              \E i \in DOMAIN report :
                  /\ report[i].dn = SvcAcctToDN(cfg, uid)
                  /\ report[i].attrs = GetSvcAcctAttributes(cfg.SvcAcct[uid])

\* C28: while the loaded configuration fails Validate, no sync command has a
\* connection open or has sent a request.
C28_InvalidConfigNoConnection ==
    ~Validate(cfg) => conns = 0 /\ ops = <<>>

\* The DNs of the entities that the claim wants rejected: groups without
\* description, accounts whose posix list has neither no nor two numbers.
MalformedDNs(c) ==
    {GroupToDN(c, g) : g \in {x \in DOMAIN c.Group : c.Group[x].Description = ""}}
    \cup {PersonToDN(c, uid) : uid \in {x \in DOMAIN c.Person : Len(c.Person[x].Posix) \notin {0, 2}}}
    \cup {SvcAcctToDN(c, uid) : uid \in {x \in DOMAIN c.SvcAcct : Len(c.SvcAcct[x].Posix) \notin {0, 2}}}

\* C29: sync, which validates its configuration, sends no request for an
\* entity that is a group without description or an account whose posix list
\* has one or more than two numbers.
C29_MalformedEntitiesRejected ==
    cmd = "sync" => \A i \in DOMAIN ops : ops[i].dn \notin MalformedDNs(cfg)

PosixAttributes == {"uidNumber", "gidNumber", "homeDirectory", "loginShell"}

\* C30: right after a successful modify of an account whose entry and
\* configuration differed in POSIX status, the entry's objectClass is the
\* derived class list, and the entry has the four POSIX attributes if the
\* configured account is POSIX and none of them if it is not.
C30_PosixFlipApplied ==
    ops # <<>> =>
        LET o == ops[Len(ops)]
        IN (/\ o.by \in AccountSyncs /\ o.op = "modify" /\ o.err = "none"
            /\ HasClass(passStart[o.dn], "posixAccount") # HasClass(o.attrs, "posixAccount")) =>
               /\ dir[o.dn].objectClass = o.attrs.objectClass
               /\ IF HasClass(o.attrs, "posixAccount")
                  THEN PosixAttributes \subseteq DOMAIN dir[o.dn]
                  ELSE PosixAttributes \cap DOMAIN dir[o.dn] = {}

----------------------------------------------------------------------------
(* C31: posixAccount or account *)

\* The declared accounts by DN: people and service accounts.
AccountAt(c) ==
    [dn \in DeclaredAccountDNs(c) |->
        IF \E uid \in DOMAIN c.Person : PersonToDN(c, uid) = dn
        THEN c.Person[CHOOSE uid \in DOMAIN c.Person : PersonToDN(c, uid) = dn]
        ELSE c.SvcAcct[CHOOSE uid \in DOMAIN c.SvcAcct : SvcAcctToDN(c, uid) = dn]]

\* classes holds exactly one of posixAccount and account, and posixAccount
\* exactly if the account has a pair of POSIX numbers.
OneAccountClass(classes, account) ==
    /\ Occurrences(classes, "posixAccount") + Occurrences(classes, "account") = 1
    /\ Occurrences(classes, "posixAccount") = 1 <=> Len(account.Posix) = 2

\* C31: the objectClass list of every create and modify sent for an account
\* or service account, and of every account a dry run prints, holds exactly
\* one of posixAccount and account: posixAccount if and only if the
\* configured entity has a pair of POSIX numbers.
C31_OneAccountClass ==
    /\ \A i \in DOMAIN ops :
          (ops[i].by \in AccountSyncs /\ ops[i].op \in {"create", "modify"}) =>
              OneAccountClass(ops[i].attrs.objectClass, AccountAt(cfg)[ops[i].dn])
    /\ \A i \in DOMAIN report :
          report[i].dn \in DeclaredAccountDNs(cfg) =>
              OneAccountClass(report[i].attrs.objectClass, AccountAt(cfg)[report[i].dn])

\* sync has written alice, who has a POSIX pair, as posixAccount, bob, who
\* has none, as account, and backup, whose list has three numbers, as account.
C31_Witness ==
    /\ cmd = "sync" /\ Succeeded
    /\ Len(cfg.SvcAcct["backup"].Posix) = 3
    /\ \E i \in DOMAIN ops :
          ops[i].dn = PersonToDN(cfg, "alice") /\ HasClass(ops[i].attrs, "posixAccount")
    /\ \E i \in DOMAIN ops :
          ops[i].dn = PersonToDN(cfg, "bob") /\ HasClass(ops[i].attrs, "account")
    /\ \E i \in DOMAIN ops :
          ops[i].dn = SvcAcctToDN(cfg, "backup") /\ HasClass(ops[i].attrs, "account")

----------------------------------------------------------------------------
(* C32: attributes outside the derived set *)

\* C32: a step changes an entry that exists before and after it only by a
\* modify for that entry, and the attributes of the entry that are not in the
\* attribute set the modify carries keep their values.
C32_OtherAttributesKept ==
    [][\A dn \in DOMAIN dir \cap DOMAIN dir' :
          dir'[dn] # dir[dn] =>
              /\ Len(ops') = Len(ops) + 1
              /\ ops'[Len(ops')].op = "modify" /\ ops'[Len(ops')].dn = dn
              /\ \A a \in DOMAIN dir[dn] \ DOMAIN ops'[Len(ops')].attrs :
                    a \in DOMAIN dir'[dn] /\ dir'[dn][a] = dir[dn][a]]_vars

\* The last request changed the cn of alice's entry and left the password
\* that something else had set on it.
C32_Witness ==
    /\ ops # <<>>
    /\ ops[Len(ops)].op = "modify" /\ ops[Len(ops)].err = "none"
    /\ ops[Len(ops)].dn = PersonToDN(cfg, "alice")
    /\ "userPassword" \notin DOMAIN ops[Len(ops)].attrs
    /\ dir[PersonToDN(cfg, "alice")].cn # passStart[PersonToDN(cfg, "alice")].cn
    /\ dir[PersonToDN(cfg, "alice")].userPassword = <<"{SSHA}secret">>

----------------------------------------------------------------------------
(* C33: precedence of command line, environment and file *)

\* The settings of the merge: configuration field, variable, flag.
Settings ==
    { [field |-> "URI", var |-> "LDAPENFORCER_URI", flag |-> "ldap-uri"],
      [field |-> "BindDN", var |-> "LDAPENFORCER_BIND_DN", flag |-> "bind-dn"],
      [field |-> "MainLogLevel", var |-> "LDAPENFORCER_LOG_LEVEL", flag |-> "log-level"] }

\* The flag when it was given, else the variable when it is set, else the file.
Precedence(s, file) ==
    IF s.flag \in DOMAIN flags THEN flags[s.flag]
    ELSE IF s.var \in DOMAIN env THEN env[s.var]
    ELSE file[s.field]

\* C33: every setting of the configuration PersistentPreRunE leaves is the
\* value of its flag when the flag was given, else of its environment
\* variable when that is set, else of the file; a flag that was not given
\* overrides nothing.
C33_FlagEnvFile ==
    [][pc = "preRun" => \A s \in Settings : cfg'[s.field] = Precedence(s, cfg)]_vars

\* The same for the settings whose flag is registered with an empty default.
C33_FlagEnvFileNoDefault ==
    [][pc = "preRun" =>
          \A s \in Settings : FlagDefault(s.flag) = "" => cfg'[s.field] = Precedence(s, cfg)]_vars

----------------------------------------------------------------------------
(* C34: passes run for one configuration change *)

\* C34: the pass that reloadConfig runs with the new configuration is the
\* only pass a detected change triggers: when that pass has returned without
\* error, no further pass starts before the loop is back at its select.
C34_OnePassPerChange ==
    [][inFlight' > inFlight => loop # "reloaded"]_vars

\* A detected change whose reload fails triggers no second pass.
C34_FailedReloadNoSecondPass ==
    [][loop = "reloadSync" /\ pc = "returned" /\ err # "none" => loop' # "reloaded"]_vars

----------------------------------------------------------------------------
(* C36: the environment after a reload *)

\* C36: in every pass, also in those that run after a reload, a setting whose
\* environment variable was set when the process started, and whose flag was
\* not given, has the variable's value.
C36_EnvKeptAcrossReload ==
    inFlight > 0 =>
        \A s \in Settings :
            s.var \in DOMAIN env /\ s.flag \notin DOMAIN flags => cfg[s.field] = env[s.var]

\* The same for the passes that run before the first reload.
C36_EnvInEffectAtStartup ==
    inFlight > 0 /\ loadedAt = 0 =>
        \A s \in Settings :
            s.var \in DOMAIN env /\ s.flag \notin DOMAIN flags => cfg[s.field] = env[s.var]

----------------------------------------------------------------------------
(* C35: no member DN twice *)

\* C35: the member list GetGroupMembers returns for a group, which
\* GetGroupAttributes writes to the member attribute as it is, holds each
\* member DN at most once.
C35_MemberListedOnce ==
    \A g \in DOMAIN resolved :
        \A i, j \in DOMAIN resolved[g] : resolved[g][i].DN = resolved[g][j].DN => i = j

\* The same for the groups none of whose accounts is listed by two of the
\* groups that can be reached from it.
C35_MemberListedOnceDisjoint ==
    \A g \in DOMAIN resolved :
        (\A h, k \in DOMAIN cfg.Group :
            h # k => /\ Range(cfg.Group[h].People) \cap Range(cfg.Group[k].People) = {}
                     /\ Range(cfg.Group[h].SvcAccts) \cap Range(cfg.Group[k].SvcAccts) = {})
        => \A i, j \in DOMAIN resolved[g] : resolved[g][i].DN = resolved[g][j].DN => i = j

----------------------------------------------------------------------------
(* C38: passes after a signal *)

\* C38: once a signal waits in sigChan while the loop is at its select, with
\* or without ticks waiting beside it, at most one further pass runs: after a
\* pass has started and returned, no other pass starts.
C38_OnePassAfterSignal ==
    [](sigPending /\ loop = "select" =>
          [](pc = "connect" => [](pc = "returned" => [](pc # "connect"))))

\* The same for the two passes of one configuration change.
C38_NoReloadPassesAfterSignal ==
    [](sigPending /\ loop = "select" => [](loop # "configSync"))

\* With no tick waiting beside the signal, the select can only receive the signal.
C38_SignalAloneExits ==
    [][loop = "select" /\ sigPending /\ ~configTick /\ ~ldapTick /\ loop' # loop
          => loop' = "exited"]_vars

----------------------------------------------------------------------------
(* MockClient (mock_client.go) *)

\* isDNInOU: dn is longer than ou and ends with it.
isDNInOU(dn, ou) ==
    /\ dn # "" /\ ou # ""
    /\ Len(dn) > Len(ou)
    /\ SubSeq(dn, Len(dn) - Len(ou) + 1, Len(dn)) = ou

\* MockClient.GetExistingEntries: existing is the set of DNs that m.Existing
\* maps to true; the entry type is not looked at.
MockGetExistingEntries(existing, ou, entryType) == {dn \in existing : isDNInOU(dn, ou)}

\* MockClient.SyncPerson and SyncSvcAcct: the operation they record for dn.
MockSync(existing, dn) == [op |-> IF dn \in existing THEN "modify" ELSE "create", dn |-> dn]

\* MockClient.SyncGroup: the operations it records for groupname.
MockSyncGroup(c, existing, groupname) ==
    LET dn == GroupToDN(c, groupname)
        members == GetGroupMembers(groupname, c.Group, c.Person, c.SvcAcct,
                                   c.EnforcedPeopleOU, c.EnforcedSvcAcctOU, c.EnforcedGroupOU)
    IN IF Len(members) = 0
       THEN IF dn \in existing THEN {[op |-> "delete", dn |-> dn]} ELSE {}
       ELSE {MockSync(existing, dn)}

\* m.Existing once the operations of a stage are recorded.
MockExisting(existing, stage) ==
    (existing \cup {o.dn : o \in {x \in stage : x.op = "create"}})
    \ {o.dn : o \in {x \in stage : x.op = "delete"}}

\* MockClient.SyncAll: the operations it appends to m.Operations, stage by
\* stage; within a stage the order is that of Go's iteration over a map, and
\* in the group stage that of topologicalSortGroups, which names every group.
MockSyncAll(c, entries) ==
    LET existing == entries \cup EnforcedOUs(c)
        existingPeople == MockGetExistingEntries(existing, c.EnforcedPeopleOU, "person")
        existingSvcAccts == MockGetExistingEntries(existing, c.EnforcedSvcAcctOU, "svcacct")
        existingGroups == MockGetExistingEntries(existing, c.EnforcedGroupOU, "group")
        addPeople == {MockSync(existing, PersonToDN(c, uid)) :
                         uid \in {u \in DOMAIN c.Person : PersonToDN(c, u) \notin existingPeople}}
        e1 == MockExisting(existing, addPeople)
        modifyPeople == {MockSync(e1, PersonToDN(c, uid)) :
                            uid \in {u \in DOMAIN c.Person : PersonToDN(c, u) \in existingPeople}}
        e2 == MockExisting(e1, modifyPeople)
        addSvcAccts == {MockSync(e2, SvcAcctToDN(c, uid)) :
                           uid \in {u \in DOMAIN c.SvcAcct : SvcAcctToDN(c, u) \notin existingSvcAccts}}
        e3 == MockExisting(e2, addSvcAccts)
        modifySvcAccts == {MockSync(e3, SvcAcctToDN(c, uid)) :
                              uid \in {u \in DOMAIN c.SvcAcct : SvcAcctToDN(c, u) \in existingSvcAccts}}
        e4 == MockExisting(e3, modifySvcAccts)
        groups == UNION {MockSyncGroup(c, e4, g) : g \in DOMAIN c.Group}
        deleteGroups == {[op |-> "delete", dn |-> dn] :
                            dn \in Remaining(existingGroups, {GroupToDN(c, g) : g \in DOMAIN c.Group})}
        deletePeople == {[op |-> "delete", dn |-> dn] :
                            dn \in Remaining(existingPeople, {PersonToDN(c, u) : u \in DOMAIN c.Person})}
        deleteSvcAccts == {[op |-> "delete", dn |-> dn] :
                              dn \in Remaining(existingSvcAccts, {SvcAcctToDN(c, u) : u \in DOMAIN c.SvcAcct})}
    IN <<addPeople, modifyPeople, addSvcAccts, modifySvcAccts, groups,
         deleteGroups, deletePeople, deleteSvcAccts>>

----------------------------------------------------------------------------
(* C37: MockClient.SyncAll against Client.SyncAll *)

EnforcedOUsDisjoint(c) ==
    \A a, b \in {"EnforcedPeopleOU", "EnforcedSvcAcctOU", "EnforcedGroupOU"} :
        a # b => ~InSubtree(c[a], c[b])

\* The requests of the pass apart from the creation of enforced OUs.
EntityOps == SelectSeq(ops, LAMBDA o : o.by # "EnsureOUExists")

\* log is, stage after stage from stage k on, the operations of stages in some order.
RECURSIVE StageByStage(_, _, _)
StageByStage(log, stages, k) ==
    IF k > Len(stages) THEN log = <<>>
    ELSE LET n == Cardinality(stages[k])
         IN /\ Len(log) >= n
            /\ {[op |-> log[i].op, dn |-> log[i].dn] : i \in 1..n} = stages[k]
            /\ StageByStage(SubSeq(log, n + 1, Len(log)), stages, k + 1)

\* Every entry below an enforced OU has the class the search of that OU filters on.
EntriesOfSearchedClass ==
    \A dn \in DOMAIN passStart :
        /\ isDNInOU(dn, cfg.EnforcedPeopleOU) => HasClass(passStart[dn], SearchFilter("person"))
        /\ isDNInOU(dn, cfg.EnforcedSvcAcctOU) => HasClass(passStart[dn], SearchFilter("svcacct"))
        /\ isDNInOU(dn, cfg.EnforcedGroupOU) => HasClass(passStart[dn], SearchFilter("group"))

\* C37: when a pass of sync over pairwise disjoint enforced OUs has returned
\* without error, the requests it issued, apart from the creation of enforced
\* OUs, are in kind and DN the operations MockClient.SyncAll records for the
\* same configuration and the same existing DNs, stage after stage.
C37_MockRecordsSameOps ==
    cmd = "sync" /\ ~dryRun /\ Succeeded /\ EnforcedOUsDisjoint(cfg) =>
        StageByStage(EntityOps, MockSyncAll(cfg, DOMAIN passStart), 1)

\* The same for the directories in which every entry below an enforced OU has
\* the class that the search of that OU filters on.
C37_MockRecordsSameOpsOfClass ==
    cmd = "sync" /\ ~dryRun /\ Succeeded /\ EnforcedOUsDisjoint(cfg) /\ EntriesOfSearchedClass =>
        StageByStage(EntityOps, MockSyncAll(cfg, DOMAIN passStart), 1)

====
